---- MODULE Spec2Model ----
(***************************************************************************)
(* A model of dam-viz: the Qt application (qt_dam_visualizer.py), the      *)
(* script class DamVisualization (damvis.py) and the grid resampler        *)
(* (damvis_utils.py).                                                      *)
(*                                                                         *)
(* Scalar values are integers counted in ticks of 0.0002, so that the      *)
(* three decimals kept by the data-range fields (one step = Milli ticks)   *)
(* are coarser than the data.  Lengths are integers in units of 5 m.       *)
(* A file name is a sequence of one-character strings.                     *)
(***************************************************************************)
EXTENDS Integers, Sequences, FiniteSets, TLC

VARIABLES
    program,                \* what runs: the application "qt", the script "cli", the
                            \*   control panel in its test window "panel", or one
                            \*   function on its own: "grid", "clean", "build"
    vtk_files,              \* self.vtk_files: insertion-ordered dict, <<[key, file], ...>>
    global_min, global_max, \* self.global_min, self.global_max
    active_scalars,         \* DamVisualizationApp.active_scalars
    show_volume,            \* DamVisualizationApp.show_volume
    target_cells,           \* self.target_cells
    current_volume_actor,   \* "None", "volume" or "fallback"
    frame_slider,           \* ControlPanel.frame_slider: [minimum, maximum, value]
    active_scalars_combo,   \* ControlPanel.active_scalars_combo: [items, current]
    data_min_spinbox,       \* ControlPanel.data_min_spinbox value
    data_max_spinbox,       \* ControlPanel.data_max_spinbox value
    show_volume_checkbox,   \* ControlPanel.show_volume_checkbox
    is_dirty,               \* ControlPanel._is_dirty
    app,                    \* DamVisualizationApp: [opacity, colormap, auto_hide_volume,
                            \*   show_isosurfaces, iso_single_mode, iso_value,
                            \*   iso_num_surfaces, iso_opacity, current_iso_actors,
                            \*   show_colorbar, current_color_function]
    control_panel,          \* ControlPanel: [opacity_sliders, colormap_combo,
                            \*   auto_hide_volume_checkbox, show_isosurfaces_checkbox,
                            \*   iso_single_radio, iso_value_spinbox, iso_num_spinbox,
                            \*   iso_opacity_spinbox, show_colorbar_checkbox]
    pc,                     \* position of the running handler: "idle", "video", "raised"
    video_keys,             \* the keys the running export has still to visit
    image_number,           \* on_create_video's image_number / len(frames)
    dam_vis,                \* the DamVisualization object of damvis.py: [vtk_files, clim]
    last,                   \* what the most recent handler step did
    grid_in,                \* resampler input under test: [bounds, target_cells]
    grid_out,               \* its outcome: [raised, dims, done]
    clean_in,               \* cleanup input under test: [data, valid_min, valid_max]
    clean_out,              \* its outcome: [filled, data, done]
    build_in,               \* actor settings under test: [global_min, global_max, opacity,
                            \*   colormap, iso_single_mode, iso_value, iso_num_surfaces,
                            \*   iso_opacity, mesh]
    build_out               \* what was built from them: [op, color, opacity, actors]

vars == <<program, vtk_files, global_min, global_max, active_scalars, show_volume,
          target_cells, current_volume_actor, frame_slider, active_scalars_combo,
          data_min_spinbox, data_max_spinbox, show_volume_checkbox, is_dirty,
          app, control_panel,
          pc, video_keys, image_number, dam_vis, last, grid_in, grid_out,
          clean_in, clean_out, build_in, build_out>>

None == "None"

(***************************************************************************)
(* Bounds of the model.                                                    *)
(***************************************************************************)
MaxFiles == 2       \* longest directory listing drawn in SpecCatalog
MaxExtent == 12     \* largest box extent drawn in SpecGrid
MaxTarget == 4      \* largest cell budget drawn in SpecGrid
MaxCount == 3       \* most isosurfaces asked for in SpecActors

MaxSamples == 3     \* longest resampled field drawn in SpecClean

(***************************************************************************)
(* Python string operations used by discovery.                             *)
(***************************************************************************)
startswith(s, p) == Len(s) >= Len(p) /\ SubSeq(s, 1, Len(p)) = p

endswith(s, p) == Len(s) >= Len(p) /\ SubSeq(s, Len(s) - Len(p) + 1, Len(s)) = p

\* s.split(c)[-1]: what follows the last c (all of s when it holds no c)
SplitLast(s, c) ==
    LET at == {i \in 1..Len(s) : s[i] = c}
        from == IF at = {} THEN 0 ELSE CHOOSE i \in at : \A j \in at : j <= i
    IN SubSeq(s, from + 1, Len(s))

\* s.split(c)[0]: what precedes the first c (all of s when it holds no c)
SplitFirst(s, c) ==
    LET at == {i \in 1..Len(s) : s[i] = c}
        to == IF at = {} THEN Len(s) + 1 ELSE CHOOSE i \in at : \A j \in at : i <= j
    IN SubSeq(s, 1, to - 1)

DigitValue(c) ==
    CASE c = "0" -> 0 [] c = "1" -> 1 [] c = "2" -> 2 [] c = "3" -> 3 [] c = "4" -> 4
      [] c = "5" -> 5 [] c = "6" -> 6 [] c = "7" -> 7 [] c = "8" -> 8 [] c = "9" -> 9

IsDigit(c) == c \in {"0", "1", "2", "3", "4", "5", "6", "7", "8", "9"}

\* int(s) raises ValueError unless s is a decimal literal
IntRaises(s) == Len(s) = 0 \/ \E i \in 1..Len(s) : ~IsDigit(s[i])

RECURSIVE int(_)
int(s) == IF Len(s) = 0 THEN 0
          ELSE 10 * int(SubSeq(s, 1, Len(s) - 1)) + DigitValue(s[Len(s)])

(***************************************************************************)
(* Insertion-ordered dict, as a sequence of [key, file] records.           *)
(***************************************************************************)
Keys(d) == {d[i].key : i \in 1..Len(d)}

KeyList(d) == [i \in 1..Len(d) |-> d[i].key]

DictGet(d, k) == d[CHOOSE i \in 1..Len(d) : d[i].key = k].file

\* d[k] = v: an existing key keeps its place, a new one goes last
DictSet(d, k, v) ==
    IF k \in Keys(d)
    THEN [i \in 1..Len(d) |-> IF d[i].key = k THEN [key |-> k, file |-> v] ELSE d[i]]
    ELSE Append(d, [key |-> k, file |-> v])

Min(S) == CHOOSE x \in S : \A y \in S : x <= y

Max(S) == CHOOSE x \in S : \A y \in S : y <= x

\* sorted(keys)
RECURSIVE sorted(_)
sorted(S) == IF S = {} THEN <<>> ELSE <<Min(S)>> \o sorted(S \ {Min(S)})

\* the dictionary left in insertion order
SortedDict_unsorted(d) == d

\* {key: d[key] for key in sorted(d.keys())}
SortedDict(d) ==
    LET ks == sorted(Keys(d))
    IN [i \in 1..Len(ks) |-> [key |-> ks[i], file |-> DictGet(d, ks[i])]]

(***************************************************************************)
(* Discovery: the loop over os.listdir shared by find_vtk_files and        *)
(* load_data_location.  [files, raised]: the dict built so far and whether *)
(* int() raised ValueError.                                                *)
(***************************************************************************)
Prefix == <<"d", "c", "i", "n", "v">>

Extension == <<".", "v", "t", "k">>

Matches(file) == startswith(file, Prefix) /\ endswith(file, Extension)

Token(file) == SplitFirst(SplitLast(file, "_"), ".")

RECURSIVE ScanListing(_, _)
ScanListing(listing, d) ==
    IF listing = <<>> THEN [files |-> d, raised |-> FALSE]
    ELSE LET file == Head(listing) IN
         IF Matches(file)
         THEN IF IntRaises(Token(file))
              THEN [files |-> d, raised |-> TRUE]
              ELSE ScanListing(Tail(listing), DictSet(d, int(Token(file)), file))
         ELSE ScanListing(Tail(listing), d)

(***************************************************************************)
(* The data-range fields: QDoubleSpinBox with three decimals.              *)
(***************************************************************************)
Milli == 5                  \* ticks in 0.001, the step of a field with 3 decimals

SpinLimit == 50000000       \* setRange(-10000, 10000), in ticks

tolerance == Milli          \* tolerance = 0.001

Abs(x) == IF x < 0 THEN -x ELSE x

\* QDoubleSpinBox rounds a value to its decimals
SpinRound(v) == ((v + (Milli \div 2)) \div Milli) * Milli

\* the value a field holds after setValue(v)
setValue(v) ==
    LET r == SpinRound(v)
    IN IF r < -SpinLimit THEN -SpinLimit ELSE IF r > SpinLimit THEN SpinLimit ELSE r

(***************************************************************************)
(* resample_to_uniform_grid.  With volume/target_cells > 0 the quotient    *)
(* e/cell_size is the real cube root of e^3 * target_cells / volume, so    *)
(* its ceiling is found in integers.  Where the quotient is a whole        *)
(* number, the floating-point cube root may land a hair to either side of  *)
(* it (64 ** (1/3) = 3.9999999999999996), so the ceiling is either that    *)
(* number or the next one.                                                 *)
(***************************************************************************)
Extents(bounds) == <<bounds[2] - bounds[1], bounds[4] - bounds[3], bounds[6] - bounds[5]>>

Volume(extents) == extents[1] * extents[2] * extents[3]

RECURSIVE Bisect(_, _, _, _)
\* least n in lo+1..hi with n^3 * a >= b, given it fails at lo and holds at hi
Bisect(lo, hi, a, b) ==
    IF hi = lo + 1 THEN hi
    ELSE LET mid == (lo + hi) \div 2
         IN IF mid * mid * mid * a >= b THEN Bisect(lo, mid, a, b) ELSE Bisect(mid, hi, a, b)

RECURSIVE Reach(_, _, _)
\* a power of two n with n^3 * a >= b
Reach(n, a, b) == IF n * n * n * a >= b THEN n ELSE Reach(2 * n, a, b)

\* least n >= 0 with n^3 * a >= b, for a > 0 and b >= 0
CubeCeil(a, b) == IF b = 0 THEN 0 ELSE Bisect(0, Reach(1, a, b), a, b)

CubeExact(a, b) == LET n == CubeCeil(a, b) IN n * n * n * a = b

\* the values int(np.ceil(e / cell_size)) can take, volume / target_cells > 0
CeilChoices(e, volume, target) ==
    LET a == Abs(volume)
        b == Abs(e) * Abs(e) * Abs(e) * Abs(target)
        n == CubeCeil(a, b)
        exact == CubeExact(a, b)
        q == IF e >= 0 THEN n ELSE IF exact THEN -n ELSE 1 - n
    IN IF exact /\ e # 0 THEN {q, q + 1} ELSE {q}

\* a dimension without the far boundary point
Dimension_bare(ceiling) == ceiling

\* a dimension with one point too many
Dimension_padded(ceiling) == ceiling + 2

\* dimensions = [int(np.ceil(e / cell_size)) + 1, ...]
Dimension(ceiling) == ceiling + 1

\* what raises before any grid exists: target_cells = 0 and volume = 0 divide
\* by zero, a negative volume / target_cells has a complex cube root that
\* np.ceil rejects
ResampleRaises(bounds, target) ==
    LET volume == Volume(Extents(bounds))
    IN \/ target = 0
       \/ volume = 0
       \/ (volume < 0) # (target < 0)

\* the dimension triples the code can compute when nothing raised so far
DimensionChoices(bounds, target) ==
    LET e == Extents(bounds)
        v == Volume(e)
    IN {<<Dimension(cx), Dimension(cy), Dimension(cz)>> :
            cx \in CeilChoices(e[1], v, target),
            cy \in CeilChoices(e[2], v, target),
            cz \in CeilChoices(e[3], v, target)}

\* spacing = extents[i] / (dimensions[i] - 1) divides by zero when a dimension is 1
SpacingRaises(dims) == \E i \in 1..3 : dims[i] = 1

\* the outcomes of resample_to_uniform_grid: [raised, dims]
resample_to_uniform_grid(bounds, target) ==
    IF ResampleRaises(bounds, target)
    THEN {[raised |-> TRUE, dims |-> <<>>]}
    ELSE {[raised |-> SpacingRaises(d), dims |-> IF SpacingRaises(d) THEN <<>> ELSE d] :
            d \in DimensionChoices(bounds, target)}

(***************************************************************************)
(* The cleanup of resample_to_uniform_grid_with_cleanup.  A float is a     *)
(* record: [k |-> "fin", v |-> ticks], or k "nan", "pinf", "ninf" (v = 0). *)
(***************************************************************************)
Fin(n) == [k |-> "fin", v |-> n]

NaN == [k |-> "nan", v |-> 0]

PosInf == [k |-> "pinf", v |-> 0]

NegInf == [k |-> "ninf", v |-> 0]

One == 1000 * Milli     \* 1.0, in ticks

isnan(x) == x.k = "nan"

isinf(x) == x.k \in {"pinf", "ninf"}

\* x < y on floats: false when either is NaN
Less(x, y) ==
    /\ ~isnan(x) /\ ~isnan(y)
    /\ \/ x.k = "ninf" /\ y.k # "ninf"
       \/ y.k = "pinf" /\ x.k # "pinf"
       \/ x.k = "fin" /\ y.k = "fin" /\ x.v < y.v

\* x - 1.0
MinusOne(x) == IF x.k = "fin" THEN Fin(x.v - One) ELSE x

\* np.nanmin: the least entry that is not NaN, NaN when there is none
nanmin(data) ==
    LET kept == {i \in 1..Len(data) : ~isnan(data[i])}
    IN IF kept = {} THEN NaN
       ELSE data[CHOOSE i \in kept : \A j \in kept : ~Less(data[j], data[i])]

\* data < valid_min - buffer, with buffer = (valid_max - valid_min) * 0.1
BelowBuffer(x, valid_min, valid_max) ==
    \/ x.k = "ninf"
    \/ x.k = "fin" /\ 10 * x.v < 10 * valid_min - (valid_max - valid_min)

\* data > valid_max + buffer
AboveBuffer(x, valid_min, valid_max) ==
    \/ x.k = "pinf"
    \/ x.k = "fin" /\ 10 * x.v > 10 * valid_max + (valid_max - valid_min)

\* the value written over an artifact, without the step below the source minimum
ArtifactValue_min(valid_min) == Fin(valid_min)

\* data[artifact_mask] = valid_min - 1.0
ArtifactValue(valid_min) == Fin(valid_min - One)

\* data[nan_mask] = np.nanmin(data) - 1.0
FillNaN(data) ==
    LET nan_mask == {i \in 1..Len(data) : isnan(data[i]) \/ isinf(data[i])}
    IN IF nan_mask = {} THEN data
       ELSE [i \in 1..Len(data) |-> IF i \in nan_mask THEN MinusOne(nanmin(data)) ELSE data[i]]

\* data[artifact_mask] = valid_min - 1.0
Threshold(data, valid_min, valid_max) ==
    [i \in 1..Len(data) |->
        IF BelowBuffer(data[i], valid_min, valid_max) \/ AboveBuffer(data[i], valid_min, valid_max)
        THEN ArtifactValue(valid_min)
        ELSE data[i]]

NoClean == [filled |-> <<>>, data |-> <<>>, done |-> FALSE]

\* the cleanup step: [filled, data]
cleanup(data, valid_min, valid_max) ==
    [filled |-> FillNaN(data), data |-> Threshold(FillNaN(data), valid_min, valid_max)]

(***************************************************************************)
(* The Qt application.  A handler is an operator from the application's    *)
(* state (a record of its fields and of the control panel's widgets) to    *)
(* the state it leaves; s.trace records what the running handler did.      *)
(***************************************************************************)
TargetCellsDefault == 500000    \* target_cells_spinbox.setValue(500000)

Channels == 18                  \* for i in range(18): one opacity slider each

SliderDefault == 10             \* slider.setValue(10), percent

IsoValueDefault == 10000        \* self.iso_value = 2.0, in ticks

IsoNumDefault == 5              \* self.iso_num_surfaces = 5

IsoOpacityDefault == 80         \* self.iso_opacity = 0.8, percent

\* self.opacity, percent
OpacityDefault == <<0, 5, 10, 15, 20, 40, 60, 80, 100, 90, 70, 50, 30, 20, 10, 5, 0, 0>>

DefaultGlobalMax == 5000        \* self.global_max = 1.0, in ticks

SliderMaximum == 100            \* frame_slider.setMaximum(100)

Resistivity == "Resistivity(log10)"

NoTrace ==
    [op |-> "init", listing |-> <<>>, raised |-> FALSE, message |-> None,
     update |-> "none", frame |-> <<>>, resample |-> "none", dims |-> <<>>,
     bounds |-> <<>>, range |-> <<>>, clim |-> <<>>,
     stages |-> <<>>,       \* the steps the frame went through, in their order
     color |-> <<>>,        \* the AddRGBPoint calls on the volume's colour function
     opacity |-> <<>>,      \* the AddPoint calls on the volume's scalar opacity
     scaled |-> FALSE,      \* the scalar opacity was replaced by the reduced one
     scalars |-> <<>>,      \* the array made active of the point arrays of the mesh,
                            \*   by the volume and by the isosurfaces: [by, of, name]
     scalar_bar |-> <<>>,   \* the colour function handed to add_scalar_bar
     dirty |-> <<>>,        \* is_dirty() as a slot of apply_changes reads it
     applied |-> FALSE]     \* apply_parameter_changes ran to its end

QtState ==
    [vtk_files |-> vtk_files, global_min |-> global_min, global_max |-> global_max,
     active_scalars |-> active_scalars, show_volume |-> show_volume,
     target_cells |-> target_cells, current_volume_actor |-> current_volume_actor,
     frame_slider |-> frame_slider, active_scalars_combo |-> active_scalars_combo,
     data_min_spinbox |-> data_min_spinbox, data_max_spinbox |-> data_max_spinbox,
     show_volume_checkbox |-> show_volume_checkbox, is_dirty |-> is_dirty,
     opacity |-> app.opacity, colormap |-> app.colormap,
     auto_hide_volume |-> app.auto_hide_volume,
     show_isosurfaces |-> app.show_isosurfaces,
     iso_single_mode |-> app.iso_single_mode, iso_value |-> app.iso_value,
     iso_num_surfaces |-> app.iso_num_surfaces, iso_opacity |-> app.iso_opacity,
     current_iso_actors |-> app.current_iso_actors,
     show_colorbar |-> app.show_colorbar,
     current_color_function |-> app.current_color_function,
     opacity_sliders |-> control_panel.opacity_sliders,
     colormap_combo |-> control_panel.colormap_combo,
     auto_hide_volume_checkbox |-> control_panel.auto_hide_volume_checkbox,
     show_isosurfaces_checkbox |-> control_panel.show_isosurfaces_checkbox,
     iso_single_radio |-> control_panel.iso_single_radio,
     iso_value_spinbox |-> control_panel.iso_value_spinbox,
     iso_num_spinbox |-> control_panel.iso_num_spinbox,
     iso_opacity_spinbox |-> control_panel.iso_opacity_spinbox,
     show_colorbar_checkbox |-> control_panel.show_colorbar_checkbox,
     trace |-> NoTrace]

(***************************************************************************)
(* Transfer functions and isosurfaces.  A scalar value is a fraction       *)
(* num/den of ticks with den > 0, colour components are fractions, channel *)
(* opacities are in percent and the opacities handed to VTK in thousandths,*)
(* so that no quotient or product is rounded.                              *)
(***************************************************************************)
Rat(n, d) == [num |-> n, den |-> d]

\* global_min + (percent / 100) * (global_max - global_min)
AtPercent(s, percent) ==
    Rat(100 * s.global_min + percent * (s.global_max - s.global_min), 100)

\* the palettes: <<percent of the range, r, g, b>>, the components in thousandths
RdYlBu_r ==
    <<<<0, 0, 0, 1000>>, <<30, 0, 1000, 1000>>, <<50, 1000, 1000, 0>>,
      <<70, 1000, 500, 0>>, <<100, 1000, 0, 0>>>>

viridis ==
    <<<<0, 267, 4, 329>>, <<25, 229, 322, 545>>, <<50, 127, 566, 550>>,
      <<75, 369, 788, 382>>, <<100, 993, 906, 144>>>>

plasma ==
    <<<<0, 50, 30, 529>>, <<25, 494, 16, 655>>, <<50, 808, 67, 472>>,
      <<75, 965, 451, 176>>, <<100, 984, 906, 145>>>>

inferno ==
    <<<<0, 0, 0, 14>>, <<25, 341, 62, 429>>, <<50, 733, 216, 329>>,
      <<75, 976, 576, 176>>, <<100, 988, 998, 645>>>>

jet ==
    <<<<0, 0, 0, 500>>, <<20, 0, 0, 1000>>, <<40, 0, 1000, 1000>>,
      <<60, 1000, 1000, 0>>, <<80, 1000, 0, 0>>, <<100, 500, 0, 0>>>>

rainbow ==
    <<<<0, 500, 0, 1000>>, <<17, 0, 0, 1000>>, <<33, 0, 1000, 1000>>,
      <<50, 0, 1000, 0>>, <<67, 1000, 1000, 0>>, <<83, 1000, 500, 0>>,
      <<100, 1000, 0, 0>>>>

\* the AddRGBPoint calls of a palette over global_min..global_max
ColorPoints(palette, s) ==
    [i \in 1..Len(palette) |->
        [value |-> AtPercent(s, palette[i][1]),
         rgb |-> <<Rat(palette[i][2], 1000), Rat(palette[i][3], 1000),
                   Rat(palette[i][4], 1000)>>]]

\* create_volume_actor: the colour transfer function
volume_color_func(s) ==
    ColorPoints(CASE s.colormap = "RdYlBu_r" -> RdYlBu_r
                  [] s.colormap = "viridis" -> viridis
                  [] s.colormap = "plasma" -> plasma
                  [] s.colormap = "inferno" -> inferno
                  [] s.colormap = "jet" -> jet
                  [] s.colormap = "rainbow" -> rainbow
                  [] OTHER -> RdYlBu_r,
                s)

\* create_isosurface_actors with a palette for every name the volume has one for
iso_color_func_as_volume(s, iso_val) == volume_color_func(s)

\* create_isosurface_actors: the colour transfer function of the surface at iso_val
iso_color_func(s, iso_val) ==
    IF s.colormap = "RdYlBu_r" THEN ColorPoints(RdYlBu_r, s)
    ELSE IF s.colormap = "viridis" THEN ColorPoints(viridis, s)
    ELSE LET a == iso_val.num - s.global_min * iso_val.den    \* normalized_value = a / b
             b == iso_val.den * (s.global_max - s.global_min)
             rgb == IF s.global_max > s.global_min
                    THEN IF 2 * a < b
                         THEN <<Rat(0, 1), Rat(2 * a, b), Rat(b - 2 * a, b)>>
                         ELSE <<Rat(2 * a - b, b), Rat(2 * b - 2 * a, b), Rat(0, 1)>>
                    ELSE <<Rat(0, 1000), Rat(800, 1000), Rat(1000, 1000)>>
         IN <<[value |-> AtPercent(s, 0), rgb |-> rgb],
              [value |-> AtPercent(s, 100), rgb |-> rgb]>>

Unscaled == 10      \* AddPoint(value, opacity_val): thousandths in one percent

Reduced == 7        \* AddPoint(value, opacity_val * 0.7)

\* the opacity points without the guard on the range
opacity_func_unguarded(s, weight) ==
    LET data_range == s.global_max - s.global_min
        den == Max({1, Len(s.opacity) - 1})
    IN [i \in 1..Len(s.opacity) |->
           [value |-> Rat(s.global_min * den + (i - 1) * data_range, den),
            opacity |-> weight * s.opacity[i]]]

\* the AddPoint calls of a scalar opacity function: one per channel at
\* global_min + (i / max(1, len - 1)) * data_range, none when the range is empty
opacity_func(s, weight) ==
    LET data_range == s.global_max - s.global_min
        den == Max({1, Len(s.opacity) - 1})
    IN IF data_range > 0
       THEN [i \in 1..Len(s.opacity) |->
               [value |-> Rat(s.global_min * den + (i - 1) * data_range, den),
                opacity |-> weight * s.opacity[i]]]
       ELSE <<>>

\* the isovalues with both ends of the range among them
iso_values_closed(s) ==
    IF s.iso_single_mode THEN <<Rat(s.iso_value, 1)>>
    ELSE IF s.global_max > s.global_min /\ s.iso_num_surfaces > 1
    THEN [i \in 1..s.iso_num_surfaces |->
            Rat(s.global_min * (s.iso_num_surfaces - 1)
                + (i - 1) * (s.global_max - s.global_min), s.iso_num_surfaces - 1)]
    ELSE <<Rat(s.iso_value, 1)>>

\* the isovalues spread over the range whatever the range is
iso_values_unguarded(s) ==
    IF s.iso_single_mode THEN <<Rat(s.iso_value, 1)>>
    ELSE [i \in 1..s.iso_num_surfaces |->
            Rat(s.global_min * (s.iso_num_surfaces + 1)
                + i * (s.global_max - s.global_min), s.iso_num_surfaces + 1)]

\* create_isosurface_actors: iso_values
iso_values(s) ==
    IF s.iso_single_mode THEN <<Rat(s.iso_value, 1)>>
    ELSE IF s.global_max > s.global_min /\ s.iso_num_surfaces > 1
    THEN [i \in 1..s.iso_num_surfaces |->
            Rat(s.global_min * (s.iso_num_surfaces + 1)
                + i * (s.global_max - s.global_min), s.iso_num_surfaces + 1)]
    ELSE <<Rat(s.iso_value, 1)>>

\* base_opacity left as it is however opaque
base_opacity_kept(s, selected) ==
    IF ~s.iso_single_mode /\ Len(selected) > 1
    THEN 7 * s.iso_opacity ELSE 10 * s.iso_opacity

\* create_isosurface_actors: the opacity of every actor, in thousandths
base_opacity(s, selected) ==
    LET base == IF ~s.iso_single_mode /\ Len(selected) > 1
                THEN 7 * s.iso_opacity ELSE 10 * s.iso_opacity
    IN IF base >= 900 THEN 1000 ELSE base

\* iso_surface.n_points > 0: the mesh has a surface at iso_val when iso_val
\* lies inside what its scalar spans
Contoured(mesh, iso_val) ==
    /\ mesh.auto_min * iso_val.den < iso_val.num
    /\ iso_val.num < mesh.auto_max * iso_val.den

\* create_isosurface_actors(mesh): <<[value, color, opacity], ...>>; its except
\* branch returns the empty list, which a mesh without any surface gives too
create_isosurface_actors(s, mesh) ==
    LET selected == iso_values(s)
        Hit(iso_val) == Contoured(mesh, iso_val)
        kept == SelectSeq(selected, Hit)
    IN [i \in 1..Len(kept) |->
           [value |-> kept[i],
            color |-> iso_color_func(s, kept[i]),
            opacity |-> base_opacity(s, selected)]]

\* update_data_range whose Auto branch leaves the fields as the operator typed them
update_data_range_unsnapped(s, auto_min, auto_max) ==
    LET manual_min == s.data_min_spinbox
        manual_max == s.data_max_spinbox
        call(branch) == [manual_min |-> manual_min, manual_max |-> manual_max,
                         auto_min |-> auto_min, auto_max |-> auto_max, branch |-> branch]
    IN IF Abs(manual_min - auto_min) > tolerance \/ Abs(manual_max - auto_max) > tolerance
       THEN [s EXCEPT !.global_min = manual_min, !.global_max = manual_max,
                      !.trace.range = <<call("manual")>>]
       ELSE [s EXCEPT !.global_min = auto_min, !.global_max = auto_max,
                      !.trace.range = <<call("auto")>>]

\* update_data_range(resampled), the resampled active scalar spanning auto_min..auto_max
update_data_range(s, auto_min, auto_max) ==
    LET manual_min == s.data_min_spinbox
        manual_max == s.data_max_spinbox
        call(branch) == [manual_min |-> manual_min, manual_max |-> manual_max,
                         auto_min |-> auto_min, auto_max |-> auto_max, branch |-> branch]
    IN IF Abs(manual_min - auto_min) > tolerance \/ Abs(manual_max - auto_max) > tolerance
       THEN [s EXCEPT !.global_min = manual_min, !.global_max = manual_max,
                      !.trace.range = <<call("manual")>>]
       ELSE [s EXCEPT !.global_min = auto_min, !.global_max = auto_max,
                      !.data_min_spinbox = setValue(auto_min),
                      !.data_max_spinbox = setValue(auto_max),
                      \* valueChanged -> on_parameter_changed -> set_dirty(True)
                      !.is_dirty = \/ s.is_dirty
                                   \/ setValue(auto_min) # manual_min
                                   \/ setValue(auto_max) # manual_max,
                      !.trace.range = <<call("auto")>>]

\* the fallback taking the first array whether or not the default array is there
set_active_scalars_first(scalar_name, mesh) ==
    LET point_data == {mesh.point_data[i] : i \in 1..Len(mesh.point_data)}
    IN IF scalar_name \in point_data THEN scalar_name
       ELSE IF mesh.point_data # <<>> THEN mesh.point_data[1]
       ELSE None

\* create_volume_actor, create_isosurface_actors: the array that is active after
\* mesh.set_active_scalars(scalar_name) and the except branch around it; None when
\* the mesh has no point array, and no call is made
set_active_scalars(scalar_name, mesh) ==
    LET point_data == {mesh.point_data[i] : i \in 1..Len(mesh.point_data)}
    IN IF scalar_name \in point_data THEN scalar_name
       ELSE IF Resistivity \in point_data THEN Resistivity
       ELSE IF mesh.point_data # <<>> THEN mesh.point_data[1]
       ELSE None

\* create_fallback_actor taking its except branch: return None
create_fallback_actor_failed(s) == [s EXCEPT !.current_volume_actor = None]

\* create_fallback_actor: the wireframe of the clipped surface
create_fallback_actor(s) == [s EXCEPT !.current_volume_actor = "fallback"]

\* create_volume_actor(mesh); grid is the outcome of resample_to_uniform_grid
create_volume_actor(s, mesh, grid) ==
    LET named == [s EXCEPT !.trace.scalars =
                      <<[by |-> "volume", of |-> mesh.point_data,
                         name |-> set_active_scalars(s.active_scalars, mesh)]>>]
    IN IF grid.raised
       THEN create_fallback_actor([named EXCEPT !.trace.resample = "raised",
                                                !.trace.bounds = <<mesh.bounds>>,
                                                !.trace.stages = <<"resample">>])
       ELSE LET ranged == update_data_range([named EXCEPT !.trace.resample = "ok",
                                                          !.trace.bounds = <<mesh.bounds>>,
                                                          !.trace.dims = grid.dims,
                                                          !.trace.stages = <<"resample", "range">>],
                                            mesh.auto_min, mesh.auto_max)
            IN [ranged EXCEPT !.current_volume_actor = "volume",
                              !.trace.clim = <<ranged.global_min, ranged.global_max>>,
                              !.trace.stages = Append(@, "transfer"),
                              !.trace.color = volume_color_func(ranged),
                              !.trace.opacity = opacity_func(ranged, Unscaled),
                              \* self.current_color_function = color_func
                              !.current_color_function = volume_color_func(ranged)]

\* update_visualization without the auto-hide
should_show_never_hiding(s) == s.show_volume

\* update_visualization: should_show_volume
should_show(s) ==
    s.show_volume /\ ~(s.auto_hide_volume /\ s.show_isosurfaces /\ s.iso_opacity >= 90)

\* update_visualization with a colour bar only for a colour function it has just built
add_scalar_bar_fresh(s) ==
    IF s.show_colorbar /\ s.current_volume_actor # None /\ s.trace.color # <<>>
    THEN [s EXCEPT !.trace.scalar_bar = s.trace.color]
    ELSE s

\* update_visualization: add_scalar_bar(color_function=self.current_color_function)
\* if self.show_colorbar and self.current_volume_actor and self.current_color_function
add_scalar_bar(s) ==
    IF s.show_colorbar /\ s.current_volume_actor # None /\ s.current_color_function # <<>>
    THEN [s EXCEPT !.trace.scalar_bar = s.current_color_function]
    ELSE s

\* update_visualization(frame_index)
update_visualization(s, frame_index, mesh, grid) ==
    IF s.vtk_files = <<>> \/ frame_index \notin Keys(s.vtk_files)
    THEN [s EXCEPT !.trace.update = "returned"]
    ELSE LET started == [s EXCEPT !.trace.update = "done", !.trace.frame = <<frame_index>>]
             should_show_volume == should_show(started)
             volumed == IF should_show_volume
                        THEN create_volume_actor(started, mesh, grid)
                        ELSE [started EXCEPT !.current_volume_actor = None]
             current_iso_actors == create_isosurface_actors(volumed, mesh)
             added == [volumed EXCEPT
                          !.current_iso_actors = current_iso_actors,
                          !.trace.stages = Append(@, "isosurfaces"),
                          !.trace.scalars = Append(@,
                              [by |-> "isosurfaces", of |-> mesh.point_data,
                               name |-> set_active_scalars(volumed.active_scalars, mesh)])]
         IN IF ~volumed.show_isosurfaces
            THEN add_scalar_bar([volumed EXCEPT !.current_iso_actors = <<>>])
            ELSE IF /\ current_iso_actors # <<>>
                    /\ added.show_volume /\ added.current_volume_actor # None
                    /\ added.iso_opacity >= 80
            THEN IF added.current_volume_actor = "fallback"
                 \* the property of the wireframe actor has no GetScalarOpacity:
                 \* the AttributeError ends the update in its except branch
                 THEN [added EXCEPT !.trace.message = "critical"]
                 ELSE add_scalar_bar([added EXCEPT
                                         !.trace.opacity = opacity_func(added, Reduced),
                                         !.trace.scaled = TRUE])
            ELSE add_scalar_bar(added)

\* ControlPanel.set_dirty(dirty)
set_dirty(s, dirty) == [s EXCEPT !.is_dirty = dirty]

\* ControlPanel.get_opacity_values(): slider.value() / 100.0, kept in percent
get_opacity_values(s) == s.opacity_sliders

\* the percentages p whose double p / 100.0, multiplied by 100, falls below p
Truncated == {29, 57, 58}

\* int(value * 100) of the double value = percent / 100.0
IntOfHundredths(percent) == IF percent \in Truncated THEN percent - 1 ELSE percent

\* ControlPanel.set_opacity_values(opacity_list): setValue(int(value * 100))
set_opacity_values(s, opacity_list) ==
    [s EXCEPT !.opacity_sliders =
        [i \in 1..Len(@) |-> IF i <= Len(opacity_list)
                             THEN IntOfHundredths(opacity_list[i]) ELSE @[i]]]

\* a preset button: slider.setValue(values[i]) for each slider, then set_dirty(True)
Preset(s, op, values) ==
    set_dirty([s EXCEPT !.opacity_sliders = values, !.trace.op = op], TRUE)

\* ControlPanel.apply_opacity_preset_full: slider.setValue(100)
apply_opacity_preset_full(s) ==
    LET num_sliders == Len(s.opacity_sliders)
    IN Preset(s, "apply_opacity_preset_full", [i \in 1..num_sliders |-> 100])

\* ControlPanel.apply_opacity_preset_linear_up: int((i / (num_sliders - 1)) * 100),
\* i counted from 0
apply_opacity_preset_linear_up(s) ==
    LET num_sliders == Len(s.opacity_sliders)
        value(i) == (i * 100) \div (num_sliders - 1)
    IN Preset(s, "apply_opacity_preset_linear_up",
              [i \in 1..num_sliders |-> value(i - 1)])

\* ControlPanel.apply_opacity_preset_linear_down:
\* int(((num_sliders - 1 - i) / (num_sliders - 1)) * 100)
apply_opacity_preset_linear_down(s) ==
    LET num_sliders == Len(s.opacity_sliders)
        value(i) == ((num_sliders - 1 - i) * 100) \div (num_sliders - 1)
    IN Preset(s, "apply_opacity_preset_linear_down",
              [i \in 1..num_sliders |-> value(i - 1)])

\* ControlPanel.apply_opacity_preset_max_middle: middle = (num_sliders - 1) / 2.0,
\* distance = abs(i - middle) / middle, max(0, int((1.0 - distance) * 100))
apply_opacity_preset_max_middle(s) ==
    LET num_sliders == Len(s.opacity_sliders)
        value(i) ==
            (100 * ((num_sliders - 1) - Abs(2 * i - (num_sliders - 1)))) \div (num_sliders - 1)
    IN Preset(s, "apply_opacity_preset_max_middle",
              [i \in 1..num_sliders |-> value(i - 1)])

\* ControlPanel.apply_opacity_preset_max_sides: min(100, int(distance * 100))
apply_opacity_preset_max_sides(s) ==
    LET num_sliders == Len(s.opacity_sliders)
        value(i) == (100 * Abs(2 * i - (num_sliders - 1))) \div (num_sliders - 1)
    IN Preset(s, "apply_opacity_preset_max_sides",
              [i \in 1..num_sliders |-> value(i - 1)])

\* ControlPanel.get_target_cells(): the field is left at its default
get_target_cells == TargetCellsDefault

\* apply_parameter_changes
apply_parameter_changes(s, mesh, grid) ==
    [update_visualization(
        [s EXCEPT !.active_scalars = s.active_scalars_combo.current,
                  !.target_cells = get_target_cells,
                  !.global_min = s.data_min_spinbox,
                  !.global_max = s.data_max_spinbox,
                  !.show_colorbar = s.show_colorbar_checkbox,
                  !.show_volume = s.show_volume_checkbox,
                  !.opacity = get_opacity_values(s),
                  !.colormap = s.colormap_combo,
                  !.auto_hide_volume = s.auto_hide_volume_checkbox,
                  !.show_isosurfaces = s.show_isosurfaces_checkbox,
                  !.iso_single_mode = s.iso_single_radio,
                  !.iso_value = s.iso_value_spinbox,
                  !.iso_num_surfaces = s.iso_num_spinbox,
                  !.iso_opacity = s.iso_opacity_spinbox],
        s.frame_slider.value, mesh, grid)
     EXCEPT !.trace.applied = TRUE]

\* TestControlPanel.on_apply_changes of test_control_panel.py: it reads the panel
\* and prints what it read, the last line being is_dirty()
on_apply_changes(s) ==
    [s EXCEPT !.trace.frame = <<s.frame_slider.value>>,
              !.trace.opacity = get_opacity_values(s),
              !.trace.color = <<s.colormap_combo>>,
              !.trace.dirty = <<s.is_dirty>>]

\* apply_changes.emit(): the slot connected to the signal runs before emit returns;
\* TestControlPanel connects on_apply_changes, DamVisualizationApp connects
\* apply_parameter_changes
emit_apply_changes(s, mesh, grid) ==
    IF program = "panel" THEN on_apply_changes(s)
    ELSE apply_parameter_changes(s, mesh, grid)

\* on_apply_clicked clearing the flag before it emits
on_apply_clicked_cleared_first(s, mesh, grid) ==
    emit_apply_changes(set_dirty([s EXCEPT !.trace.op = "on_apply_clicked"], FALSE),
                       mesh, grid)

\* ControlPanel.on_apply_clicked: emit apply_changes, then set_dirty(False)
on_apply_clicked(s, mesh, grid) ==
    set_dirty(emit_apply_changes([s EXCEPT !.trace.op = "on_apply_clicked"], mesh, grid),
              FALSE)

\* QSlider keeps minimum <= value <= maximum; a moved value sets the dirty flag
SliderSet(s, minimum, maximum, value) ==
    LET v == IF value < minimum THEN minimum ELSE IF value > maximum THEN maximum ELSE value
    IN [s EXCEPT !.frame_slider = [minimum |-> minimum, maximum |-> maximum, value |-> v],
                 !.is_dirty = s.is_dirty \/ v # s.frame_slider.value]

\* ControlPanel.set_frame_range: setMinimum, then setMaximum
set_frame_range(s, min_frame, max_frame) ==
    LET lowered == SliderSet(s, min_frame,
                             IF s.frame_slider.maximum < min_frame THEN min_frame
                             ELSE s.frame_slider.maximum,
                             s.frame_slider.value)
    IN SliderSet(lowered,
                 IF max_frame < lowered.frame_slider.minimum THEN max_frame
                 ELSE lowered.frame_slider.minimum,
                 max_frame, lowered.frame_slider.value)

\* ControlPanel.update_available_scalars(scalar_names, default_scalar)
update_available_scalars(s, scalar_names, default_scalar) ==
    LET current_selection == s.active_scalars_combo.current
        names == {scalar_names[i] : i \in 1..Len(scalar_names)}
        chosen == IF current_selection \in names THEN current_selection
                  ELSE IF default_scalar \in names THEN default_scalar
                  ELSE scalar_names[1]
    IN [s EXCEPT !.active_scalars_combo = [items |-> scalar_names, current |-> chosen],
                 !.is_dirty = TRUE]

\* auto_detect_initial_data_range(mesh), the raw scalar spanning raw_min..raw_max
auto_detect_initial_data_range(s, first) ==
    [s EXCEPT !.global_min = first.raw_min, !.global_max = first.raw_max,
              !.data_min_spinbox = setValue(first.raw_min),
              !.data_max_spinbox = setValue(first.raw_max),
              \* default_iso_value = auto_min + 0.5 * (auto_max - auto_min)
              !.iso_value_spinbox =
                  setValue(first.raw_min + (first.raw_max - first.raw_min) \div 2),
              !.iso_value = first.raw_min + (first.raw_max - first.raw_min) \div 2,
              !.is_dirty = \/ s.is_dirty
                           \/ setValue(first.raw_min) # s.data_min_spinbox
                           \/ setValue(first.raw_max) # s.data_max_spinbox
                           \/ setValue(first.raw_min + (first.raw_max - first.raw_min) \div 2)
                                  # s.iso_value_spinbox]

\* detect_available_scalars; first is what the first file holds
detect_available_scalars(s, first) ==
    LET listed == update_available_scalars(s, first.scalars, s.active_scalars)
    IN auto_detect_initial_data_range(
           [listed EXCEPT !.active_scalars = listed.active_scalars_combo.current], first)

\* load_data_location without the check for an empty catalog
load_data_location_silent(s, listing, first, mesh, grid) ==
    [s EXCEPT !.vtk_files = ScanListing(listing, <<>>).files,
              !.trace.op = "load_data_location", !.trace.listing = listing]

\* load_data_location(folder_path), os.listdir returning listing
load_data_location(s, listing, first, mesh, grid) ==
    LET scan == ScanListing(listing, <<>>)
        cleared == [s EXCEPT !.vtk_files = <<>>, !.trace.op = "load_data_location",
                             !.trace.listing = listing]
    IN IF scan.raised
       THEN [cleared EXCEPT !.vtk_files = scan.files, !.trace.raised = TRUE,
                            !.trace.message = "critical"]
       ELSE IF scan.files = <<>>
       THEN [cleared EXCEPT !.trace.message = "warning"]
       ELSE LET found == [cleared EXCEPT !.vtk_files = SortedDict(scan.files)]
                min_frame == Min(Keys(found.vtk_files))
                max_frame == Max(Keys(found.vtk_files))
                ranged == set_opacity_values(set_frame_range(found, min_frame, max_frame),
                                             found.opacity)
                detected == detect_available_scalars(ranged, first)
                placed == SliderSet(detected, detected.frame_slider.minimum,
                                    detected.frame_slider.maximum, min_frame)
                shown == update_visualization(placed, min_frame, mesh, grid)
            IN [shown EXCEPT !.is_dirty = FALSE]

\* auto_detect_scalar_range clearing the flag once the range is applied
auto_detect_scalar_range_cleared(s, raw, mesh, grid) ==
    LET current_frame == s.frame_slider.value
        point_data == {raw.scalars[i] : i \in 1..Len(raw.scalars)}
        pressed == [s EXCEPT !.trace.op = "auto_detect_scalar_range"]
    IN IF s.vtk_files = <<>> \/ s.active_scalars = ""
          \/ current_frame \notin Keys(s.vtk_files) \/ s.active_scalars \notin point_data
       THEN pressed
       ELSE set_dirty(apply_parameter_changes(
                          [pressed EXCEPT !.data_min_spinbox = setValue(raw.raw_min),
                                          !.data_max_spinbox = setValue(raw.raw_max)],
                          mesh, grid),
                      FALSE)

\* auto_detect_scalar_range, the Auto-Detect Range button; raw is the file of the
\* current frame as pv.read returns it, mesh and grid what the update makes of it
auto_detect_scalar_range(s, raw, mesh, grid) ==
    LET current_frame == s.frame_slider.value
        point_data == {raw.scalars[i] : i \in 1..Len(raw.scalars)}
        pressed == [s EXCEPT !.trace.op = "auto_detect_scalar_range"]
    IN IF s.vtk_files = <<>> \/ s.active_scalars = ""
       THEN pressed
       ELSE IF current_frame \notin Keys(s.vtk_files)
       THEN pressed
       ELSE IF s.active_scalars \notin point_data
       THEN pressed
       ELSE apply_parameter_changes(
                [pressed EXCEPT !.data_min_spinbox = setValue(raw.raw_min),
                                !.data_max_spinbox = setValue(raw.raw_max),
                                \* valueChanged -> on_parameter_changed -> set_dirty(True)
                                !.is_dirty = \/ s.is_dirty
                                             \/ setValue(raw.raw_min) # s.data_min_spinbox
                                             \/ setValue(raw.raw_max) # s.data_max_spinbox],
                mesh, grid)

(***************************************************************************)
(* The script class DamVisualization of damvis.py.                         *)
(***************************************************************************)
ScriptTargetCells == 1000000    \* resample_to_uniform_grid(ugrid, target_cells=1_000_000)

ScriptGlobalMin == -945         \* dam_vis.global_min = -0.189, in ticks

ScriptGlobalMax == 24850        \* dam_vis.global_max = 4.970, in ticks

\* find_vtk_files, os.listdir returning listing: [vtk_files, raised]
find_vtk_files(listing) ==
    LET scan == ScanListing(listing, <<>>)
    IN [vtk_files |-> IF scan.raised THEN scan.files ELSE SortedDict(scan.files),
        raised |-> scan.raised]

(***************************************************************************)
(* What the environment supplies: directory listings, the scalar arrays    *)
(* and raw range of the first file, and for each frame read the bounds of  *)
(* its clipped mesh and the range of its resampled scalar.                 *)
(***************************************************************************)
Name(stem) == Prefix \o stem \o Extension

dcinv_2 == Name(<<"_", "2">>)

dcinv_10 == Name(<<"_", "1", "0">>)

dcinv_02 == Name(<<"_", "0", "2">>)                     \* the index of dcinv_2 again

dcinv == Name(<<>>)                                     \* no index token

mesh_3 == <<"m", "e", "s", "h", "_", "3">> \o Extension \* another prefix

dcinv_4_txt == Prefix \o <<"_", "4", ".", "t", "x", "t">> \* another extension

FileUniverse == {dcinv_10, dcinv_2, dcinv_02, dcinv, mesh_3, dcinv_4_txt}

\* the listings without repetition of at most n names
RECURSIVE Listings(_)
Listings(n) ==
    IF n = 0 THEN {<<>>}
    ELSE LET shorter == Listings(n - 1)
             longest == {l \in shorter : Len(l) = n - 1}
             Listed(l) == {l[i] : i \in 1..Len(l)}
         IN shorter \cup UNION {{Append(l, f) : f \in FileUniverse \ Listed(l)} : l \in longest}

AllListings == Listings(MaxFiles)

\* a results folder in the order of an alphabetical listing, and a folder without frames
SessionListings == {<<dcinv_10, dcinv_2, mesh_3>>, <<mesh_3>>}

AutoRanges == {<<-947, 24851>>, <<-600, 20000>>}

OneRange == {<<-947, 24851>>}

ScalarLists == {<<Resistivity>>, <<"Coverage", Resistivity>>}

ClippedBox == <<0, 3, 0, 4, 0, 1>>      \* bounds [2, 17, 2, 22, 22, 27]

FlatBox == <<0, 3, 0, 4, 0, 0>>         \* a clipped mesh without thickness

EmptyBox == <<1, -1, 1, -1, 1, -1>>     \* the bounds of an empty clipped mesh

\* the point arrays of a frame that has every array the first file can have
EveryArray == <<"Coverage", Resistivity>>

Meshes(ranges, boxes) ==
    {[bounds |-> ClippedBox, auto_min |-> r[1], auto_max |-> r[2],
      point_data |-> EveryArray] : r \in ranges}
    \cup {[bounds |-> b, auto_min |-> 0, auto_max |-> 0, point_data |-> EveryArray] :
              b \in boxes}

DegenerateBoxes == {FlatBox, EmptyBox}

Firsts(ranges, lists) ==
    {[scalars |-> sc, raw_min |-> r[1], raw_max |-> r[2]] : sc \in lists, r \in ranges}

EditMins == {-950}          \* typed into Data Min: -0.190

EditMaxs == {25000}         \* typed into Data Max: 5.000

(***************************************************************************)
(* Actions of the Qt application.                                          *)
(***************************************************************************)
CliVars == <<dam_vis>>

GridVars == <<grid_in, grid_out>>

CleanVars == <<clean_in, clean_out>>

BuildVars == <<build_in, build_out>>

\* the variables of the functions checked on their own
PureVars == <<GridVars, CleanVars, BuildVars>>

VideoVars == <<pc, video_keys, image_number>>

Assign(s) ==
    /\ vtk_files' = s.vtk_files
    /\ global_min' = s.global_min
    /\ global_max' = s.global_max
    /\ active_scalars' = s.active_scalars
    /\ show_volume' = s.show_volume
    /\ target_cells' = s.target_cells
    /\ current_volume_actor' = s.current_volume_actor
    /\ frame_slider' = s.frame_slider
    /\ active_scalars_combo' = s.active_scalars_combo
    /\ data_min_spinbox' = s.data_min_spinbox
    /\ data_max_spinbox' = s.data_max_spinbox
    /\ show_volume_checkbox' = s.show_volume_checkbox
    /\ is_dirty' = s.is_dirty
    /\ app' = [opacity |-> s.opacity, colormap |-> s.colormap,
               auto_hide_volume |-> s.auto_hide_volume,
               show_isosurfaces |-> s.show_isosurfaces,
               iso_single_mode |-> s.iso_single_mode, iso_value |-> s.iso_value,
               iso_num_surfaces |-> s.iso_num_surfaces, iso_opacity |-> s.iso_opacity,
               current_iso_actors |-> s.current_iso_actors,
               show_colorbar |-> s.show_colorbar,
               current_color_function |-> s.current_color_function]
    /\ control_panel' =
           [opacity_sliders |-> s.opacity_sliders, colormap_combo |-> s.colormap_combo,
            auto_hide_volume_checkbox |-> s.auto_hide_volume_checkbox,
            show_isosurfaces_checkbox |-> s.show_isosurfaces_checkbox,
            iso_single_radio |-> s.iso_single_radio,
            iso_value_spinbox |-> s.iso_value_spinbox,
            iso_num_spinbox |-> s.iso_num_spinbox,
            iso_opacity_spinbox |-> s.iso_opacity_spinbox,
            show_colorbar_checkbox |-> s.show_colorbar_checkbox]
    /\ last' = s.trace
    /\ UNCHANGED <<program, CliVars, PureVars>>

QtIdle == program = "qt" /\ pc = "idle"

\* on_parameter_changed after the operator changed a control
Edited(s) == [s EXCEPT !.is_dirty = TRUE, !.trace.op = "on_parameter_changed"]

\* the first frame resampled holds values of the first file
Sampled(first, mesh) == first.raw_min <= mesh.auto_min /\ mesh.auto_max <= first.raw_max

\* File > Open Data Location...
OpenDataLocation(listings, firsts, meshes) ==
    /\ QtIdle
    /\ \E mesh \in meshes :
         \E grid \in resample_to_uniform_grid(mesh.bounds, target_cells) :
         \E first \in {f \in firsts : Sampled(f, mesh)}, listing \in listings :
            Assign(load_data_location(QtState, listing, first, mesh, grid))
    /\ UNCHANGED VideoVars

EditDataMin ==
    /\ QtIdle
    /\ \E v \in EditMins \ {data_min_spinbox} :
         Assign(Edited([QtState EXCEPT !.data_min_spinbox = v]))
    /\ UNCHANGED VideoVars

EditDataMax ==
    /\ QtIdle
    /\ \E v \in EditMaxs \ {data_max_spinbox} :
         Assign(Edited([QtState EXCEPT !.data_max_spinbox = v]))
    /\ UNCHANGED VideoVars

SelectScalars ==
    /\ QtIdle
    /\ \E i \in 1..Len(active_scalars_combo.items) :
         /\ active_scalars_combo.items[i] # active_scalars_combo.current
         /\ Assign(Edited([QtState EXCEPT
                !.active_scalars_combo.current = active_scalars_combo.items[i]]))
    /\ UNCHANGED VideoVars

\* the slider stops the operator picks: the frames, and the first index between them
SliderStops ==
    LET inside == frame_slider.minimum..frame_slider.maximum
        gaps == inside \ Keys(vtk_files)
    IN (Keys(vtk_files) \cap inside) \cup (IF gaps = {} THEN {} ELSE {Min(gaps)})

MoveFrameSlider ==
    /\ QtIdle
    /\ \E v \in SliderStops \ {frame_slider.value} :
         Assign(Edited([QtState EXCEPT !.frame_slider.value = v]))
    /\ UNCHANGED VideoVars

ClickApply(meshes) ==
    /\ QtIdle
    /\ \E mesh \in meshes :
         \E grid \in resample_to_uniform_grid(mesh.bounds, get_target_cells) :
            Assign(on_apply_clicked(QtState, mesh, grid))
    /\ UNCHANGED VideoVars

\* on_create_video up to its loop; accepted: the file dialog returned a name
VideoStart ==
    /\ QtIdle
    /\ IF vtk_files = <<>>
       THEN /\ Assign([QtState EXCEPT !.trace.op = "on_create_video",
                                      !.trace.message = "warning"])
            /\ UNCHANGED VideoVars
       ELSE \E accepted \in BOOLEAN :
               /\ Assign([QtState EXCEPT !.trace.op = "on_create_video"])
               /\ IF accepted
                  THEN /\ pc' = "video"
                       /\ video_keys' = sorted(Keys(vtk_files))
                       /\ image_number' = 0
                  ELSE UNCHANGED VideoVars

\* one turn of the loop: update_visualization, capture_screenshot, image_number += 1
VideoFrame(meshes) ==
    /\ program = "qt" /\ pc = "video" /\ video_keys # <<>>
    /\ \E mesh \in meshes :
         \E grid \in resample_to_uniform_grid(mesh.bounds, target_cells) :
            Assign(update_visualization([QtState EXCEPT !.trace.op = "video_frame"],
                                        Head(video_keys), mesh, grid))
    /\ video_keys' = Tail(video_keys)
    /\ image_number' = image_number + 1
    /\ pc' = pc

\* after the loop: ffmpeg, then the information box
VideoEnd ==
    /\ program = "qt" /\ pc = "video" /\ video_keys = <<>>
    /\ Assign([QtState EXCEPT !.trace.op = "video_end", !.trace.message = "information"])
    /\ pc' = "idle"
    /\ UNCHANGED <<video_keys, image_number>>

(***************************************************************************)
(* Actions of the script.  An exception nothing catches ends it.           *)
(***************************************************************************)
QtVars == <<vtk_files, global_min, global_max, active_scalars, show_volume, target_cells,
            current_volume_actor, frame_slider, active_scalars_combo, data_min_spinbox,
            data_max_spinbox, show_volume_checkbox, is_dirty, app, control_panel>>

CliIdle == program = "cli" /\ pc = "idle"

FindVtkFiles(listings) ==
    /\ CliIdle
    /\ \E listing \in listings :
         LET found == find_vtk_files(listing)
         IN /\ dam_vis' = [dam_vis EXCEPT !.vtk_files = found.vtk_files]
            /\ pc' = IF found.raised THEN "raised" ELSE "idle"
            /\ last' = [NoTrace EXCEPT !.op = "find_vtk_files", !.listing = listing,
                                       !.raised = found.raised]
    /\ UNCHANGED <<program, QtVars, PureVars, video_keys, image_number>>

\* dam_vis.global_max = 4.970; dam_vis.global_min = -0.189
SetGlobalRange ==
    /\ CliIdle
    /\ dam_vis.clim = <<>>
    /\ dam_vis' = [dam_vis EXCEPT !.clim = <<ScriptGlobalMin, ScriptGlobalMax>>]
    /\ last' = [NoTrace EXCEPT !.op = "set_global_range"]
    /\ UNCHANGED <<program, QtVars, PureVars, VideoVars>>

\* create_video up to its loop
CreateVideoStart ==
    /\ CliIdle
    /\ last' = [NoTrace EXCEPT !.op = "create_video", !.raised = (dam_vis.clim = <<>>)]
    /\ IF dam_vis.clim = <<>>
       THEN pc' = "raised" /\ UNCHANGED <<video_keys, image_number>>
       ELSE /\ pc' = "video"
            /\ video_keys' = KeyList(dam_vis.vtk_files)
            /\ image_number' = 0
    /\ UNCHANGED <<program, QtVars, PureVars, CliVars>>

\* one turn of the loop: read, clip, resample, add_volume, screenshot
CreateVideoFrame(meshes) ==
    /\ program = "cli" /\ pc = "video" /\ video_keys # <<>>
    /\ \E mesh \in meshes :
         \E grid \in resample_to_uniform_grid(mesh.bounds, ScriptTargetCells) :
            /\ last' = [NoTrace EXCEPT !.op = "create_video_frame",
                            !.frame = <<Head(video_keys)>>,
                            !.raised = grid.raised,
                            !.resample = IF grid.raised THEN "raised" ELSE "ok",
                            !.bounds = <<mesh.bounds>>,
                            !.dims = grid.dims,
                            !.clim = IF grid.raised THEN <<>> ELSE dam_vis.clim,
                            \* resample_to_uniform_grid, then add_volume
                            !.stages = IF grid.raised THEN <<"resample">>
                                       ELSE <<"resample", "transfer">>]
            /\ pc' = IF grid.raised THEN "raised" ELSE "video"
            /\ image_number' = IF grid.raised THEN image_number ELSE image_number + 1
    /\ video_keys' = Tail(video_keys)
    /\ UNCHANGED <<program, QtVars, PureVars, CliVars>>

\* after the loop: imageio.mimsave
CreateVideoEnd ==
    /\ program = "cli" /\ pc = "video" /\ video_keys = <<>>
    /\ pc' = "idle"
    /\ last' = [NoTrace EXCEPT !.op = "create_video_end"]
    /\ UNCHANGED <<program, QtVars, PureVars, CliVars, video_keys, image_number>>

(***************************************************************************)
(* The resampler on its own: Init draws the bounds and the cell budget.    *)
(***************************************************************************)
Boxes ==
    {<<0, ex, 0, ey, 0, ez>> : ex \in 0..MaxExtent, ey \in 0..MaxExtent, ez \in 0..MaxExtent}
    \cup {EmptyBox}

NoGrid == [raised |-> FALSE, dims |-> <<>>, done |-> FALSE]

Resample ==
    /\ program = "grid"
    /\ ~grid_out.done
    /\ \E grid \in resample_to_uniform_grid(grid_in.bounds, grid_in.target_cells) :
         grid_out' = [raised |-> grid.raised, dims |-> grid.dims, done |-> TRUE]
    /\ UNCHANGED <<program, QtVars, CliVars, VideoVars, last, grid_in, CleanVars, BuildVars>>

(***************************************************************************)
(* Specifications.                                                         *)
(***************************************************************************)
InitFields ==
    /\ vtk_files = <<>>
    /\ global_min = 0
    /\ global_max = DefaultGlobalMax
    /\ active_scalars = Resistivity
    /\ show_volume = TRUE
    /\ target_cells = TargetCellsDefault
    /\ current_volume_actor = None
    /\ frame_slider = [minimum |-> 0, maximum |-> SliderMaximum, value |-> 0]
    /\ active_scalars_combo = [items |-> <<Resistivity>>, current |-> Resistivity]
    /\ data_min_spinbox = 0
    /\ data_max_spinbox = DefaultGlobalMax
    /\ show_volume_checkbox = TRUE
    /\ is_dirty = FALSE
    /\ app = [opacity |-> OpacityDefault, colormap |-> "RdYlBu_r",
              auto_hide_volume |-> TRUE, show_isosurfaces |-> FALSE,
              iso_single_mode |-> TRUE, iso_value |-> IsoValueDefault,
              iso_num_surfaces |-> IsoNumDefault, iso_opacity |-> IsoOpacityDefault,
              current_iso_actors |-> <<>>,
              show_colorbar |-> TRUE, current_color_function |-> <<>>]
    /\ control_panel =
          [opacity_sliders |-> [i \in 1..Channels |-> SliderDefault],
           colormap_combo |-> "RdYlBu_r",
           auto_hide_volume_checkbox |-> TRUE, show_isosurfaces_checkbox |-> FALSE,
           iso_single_radio |-> TRUE, iso_value_spinbox |-> IsoValueDefault,
           iso_num_spinbox |-> IsoNumDefault, iso_opacity_spinbox |-> IsoOpacityDefault,
           show_colorbar_checkbox |-> TRUE]
    /\ pc = "idle"
    /\ video_keys = <<>>
    /\ image_number = 0
    /\ dam_vis = [vtk_files |-> <<>>, clim |-> <<>>]
    /\ last = NoTrace

GridIdle ==
    /\ grid_in = [bounds |-> ClippedBox, target_cells |-> TargetCellsDefault]
    /\ grid_out = NoGrid

CleanIdle ==
    /\ clean_in = [data |-> <<>>, valid_min |-> 0, valid_max |-> 0]
    /\ clean_out = NoClean

NoBuild == [selected |-> <<>>, actors |-> <<>>, color |-> <<>>, opacity |-> <<>>,
            done |-> FALSE]

\* the settings the application starts with, over the range of the script
BuildDefaults ==
    [op |-> "none", global_min |-> ScriptGlobalMin, global_max |-> ScriptGlobalMax,
     opacity |-> OpacityDefault, colormap |-> "RdYlBu_r", iso_single_mode |-> TRUE,
     iso_value |-> IsoValueDefault, iso_num_surfaces |-> IsoNumDefault,
     iso_opacity |-> IsoOpacityDefault,
     mesh |-> [bounds |-> ClippedBox, auto_min |-> ScriptGlobalMin,
               auto_max |-> ScriptGlobalMax, point_data |-> <<Resistivity>>]]

BuildIdle ==
    /\ build_in = BuildDefaults
    /\ build_out = NoBuild

Init ==
    /\ program \in {"qt", "cli"}
    /\ InitFields
    /\ GridIdle
    /\ CleanIdle
    /\ BuildIdle

SessionFirsts == Firsts(AutoRanges, ScalarLists)

SessionMeshes == Meshes(AutoRanges, DegenerateBoxes)

\* the frames the operator looks at one by one have a volume; an export also
\* comes across frames that have none
ViewedMeshes == Meshes(AutoRanges, {})

Next ==
    \/ OpenDataLocation(SessionListings, SessionFirsts, ViewedMeshes)
    \/ EditDataMin
    \/ EditDataMax
    \/ SelectScalars
    \/ MoveFrameSlider
    \/ ClickApply(ViewedMeshes)
    \/ VideoStart
    \/ VideoFrame(SessionMeshes)
    \/ VideoEnd
    \/ FindVtkFiles(SessionListings)
    \/ SetGlobalRange
    \/ CreateVideoStart
    \/ CreateVideoFrame(SessionMeshes)
    \/ CreateVideoEnd

Spec == Init /\ [][Next]_vars

\* the same programs over every short directory listing
CatalogFirsts == Firsts(OneRange, {<<Resistivity>>})

CatalogMeshes == Meshes(OneRange, {})

NextCatalog ==
    \/ OpenDataLocation(AllListings, CatalogFirsts, CatalogMeshes)
    \/ ClickApply(CatalogMeshes)
    \/ VideoStart
    \/ VideoFrame(CatalogMeshes)
    \/ VideoEnd
    \/ FindVtkFiles(AllListings)
    \/ SetGlobalRange
    \/ CreateVideoStart
    \/ CreateVideoFrame(CatalogMeshes)
    \/ CreateVideoEnd

SpecCatalog == Init /\ [][NextCatalog]_vars

InitGrid ==
    /\ program = "grid"
    /\ InitFields
    /\ grid_in \in {[bounds |-> b, target_cells |-> t] : b \in Boxes, t \in 0..MaxTarget}
    /\ grid_out = NoGrid
    /\ CleanIdle
    /\ BuildIdle

NextGrid == Resample

SpecGrid == InitGrid /\ [][NextGrid]_vars

(***************************************************************************)
(* The cleanup on its own: Init draws the resampled field and the range    *)
(* of the source field.                                                    *)
(***************************************************************************)
SourceRanges == {<<0, 100>>, <<40, 40>>}

\* resampled values around the source range 0..100 and its buffer of 10
Samples == {NaN, PosInf, NegInf} \cup {Fin(v) : v \in {-11, -10, 40, 110, 111}}

RECURSIVE Fields(_)
Fields(n) ==
    IF n = 0 THEN {<<>>}
    ELSE LET shorter == Fields(n - 1)
         IN shorter \cup UNION {{Append(f, x) : x \in Samples} :
                                   f \in {g \in shorter : Len(g) = n - 1}}

Clean ==
    /\ program = "clean"
    /\ ~clean_out.done
    /\ LET cleaned == cleanup(clean_in.data, clean_in.valid_min, clean_in.valid_max)
       IN clean_out' = [filled |-> cleaned.filled, data |-> cleaned.data, done |-> TRUE]
    /\ UNCHANGED <<program, QtVars, CliVars, VideoVars, last, GridVars, clean_in, BuildVars>>

InitClean ==
    /\ program = "clean"
    /\ InitFields
    /\ GridIdle
    /\ clean_in \in {[data |-> f, valid_min |-> r[1], valid_max |-> r[2]] :
                        f \in Fields(MaxSamples) \ {<<>>}, r \in SourceRanges}
    /\ clean_out = NoClean
    /\ BuildIdle

NextClean == Clean

SpecClean == InitClean /\ [][NextClean]_vars

(***************************************************************************)
(* The transfer functions and the isosurface actors on their own: Init     *)
(* draws the settings apply_parameter_changes can leave in the application *)
(* and the mesh of the frame.                                              *)
(***************************************************************************)
\* the range of the script, the initial one, an empty one and a reversed one
BuildRanges == {<<ScriptGlobalMin, ScriptGlobalMax>>, <<0, DefaultGlobalMax>>,
                <<DefaultGlobalMax, DefaultGlobalMax>>, <<DefaultGlobalMax, 0>>}

\* the items of colormap_combo
Supported == {"RdYlBu_r", "viridis", "plasma", "inferno", "jet", "rainbow"}

\* and a name the combo box does not offer, which the last else of both builders
\* is written for
Colormaps == Supported \cup {"gray"}

\* the sliders as load_data_location sets them, and after the preset "full"
ChannelLists == {OpacityDefault, [i \in 1..Channels |-> 100]}

\* iso_opacity_spinbox, percent: values on both sides of 0.9
IsoOpacities == {50, 89, 90, 100}

\* iso_value_spinbox: the default 2.0 and 0.5
IsoValues == {IsoValueDefault, 2500}

\* the scalar of the frame spans the range of the script, its lower part, or nothing
BuildMeshes == Meshes({<<ScriptGlobalMin, ScriptGlobalMax>>, <<0, 3000>>}, {FlatBox})

TransferInputs ==
    {[BuildDefaults EXCEPT !.op = "transfer", !.global_min = r[1], !.global_max = r[2],
                           !.opacity = o, !.colormap = c] :
        r \in BuildRanges, o \in ChannelLists, c \in Colormaps}

IsosurfaceInputs ==
    {[BuildDefaults EXCEPT !.op = "isosurfaces", !.global_min = r[1], !.global_max = r[2],
                           !.colormap = x[1], !.iso_single_mode = x[2], !.iso_value = x[3],
                           !.iso_num_surfaces = x[4], !.iso_opacity = x[5], !.mesh = m] :
        r \in BuildRanges, m \in BuildMeshes,
        x \in Colormaps \X BOOLEAN \X IsoValues \X (2..MaxCount) \X IsoOpacities}

\* create_volume_actor from the colour transfer function on
BuildTransfer ==
    /\ program = "build"
    /\ build_in.op = "transfer"
    /\ ~build_out.done
    /\ build_out' = [NoBuild EXCEPT
            !.color = volume_color_func(build_in),
            !.opacity = opacity_func(build_in, Unscaled),
            !.done = TRUE]
    /\ UNCHANGED <<program, QtVars, CliVars, VideoVars, last, GridVars, CleanVars, build_in>>

\* create_isosurface_actors(mesh)
BuildIsosurfaces ==
    /\ program = "build"
    /\ build_in.op = "isosurfaces"
    /\ ~build_out.done
    /\ build_out' = [NoBuild EXCEPT
            !.selected = iso_values(build_in),
            !.actors = create_isosurface_actors(build_in, build_in.mesh),
            !.done = TRUE]
    /\ UNCHANGED <<program, QtVars, CliVars, VideoVars, last, GridVars, CleanVars, build_in>>

InitActors ==
    /\ program = "build"
    /\ InitFields
    /\ GridIdle
    /\ CleanIdle
    /\ build_in \in TransferInputs \cup IsosurfaceInputs
    /\ build_out = NoBuild

NextActors == BuildTransfer \/ BuildIsosurfaces

SpecActors == InitActors /\ [][NextActors]_vars

(***************************************************************************)
(* The application with its rendering options: the operator opens a        *)
(* results folder, changes the volume and isosurface options and applies.  *)
(***************************************************************************)
SceneListings == {<<dcinv_10, dcinv_2>>}

SceneFirsts == Firsts(OneRange, {<<Resistivity>>})

\* frames spanning the range of the first file, or only its lower part
SceneMeshes == Meshes(OneRange \cup {<<0, 3000>>}, {EmptyBox})

\* iso_opacity_spinbox, percent: below 0.8, between the thresholds, and 0.9
SceneOpacities == {70, 80, 90}

ToggleShowVolume ==
    /\ QtIdle
    /\ Assign(Edited([QtState EXCEPT !.show_volume_checkbox = ~@]))
    /\ UNCHANGED VideoVars

ToggleAutoHideVolume ==
    /\ QtIdle
    /\ Assign(Edited([QtState EXCEPT !.auto_hide_volume_checkbox = ~@]))
    /\ UNCHANGED VideoVars

ToggleShowIsosurfaces ==
    /\ QtIdle
    /\ Assign(Edited([QtState EXCEPT !.show_isosurfaces_checkbox = ~@]))
    /\ UNCHANGED VideoVars

EditIsoOpacity ==
    /\ QtIdle
    /\ \E v \in SceneOpacities \ {control_panel.iso_opacity_spinbox} :
         Assign(Edited([QtState EXCEPT !.iso_opacity_spinbox = v]))
    /\ UNCHANGED VideoVars

NextScene ==
    \/ OpenDataLocation(SceneListings, SceneFirsts, SceneMeshes)
    \/ ToggleShowVolume
    \/ ToggleAutoHideVolume
    \/ ToggleShowIsosurfaces
    \/ EditIsoOpacity
    \/ ClickApply(SceneMeshes)

InitScene ==
    /\ program = "qt"
    /\ InitFields
    /\ GridIdle
    /\ CleanIdle
    /\ BuildIdle

SpecScene == InitScene /\ [][NextScene]_vars

(***************************************************************************)
(* The application over frames that do not all hold the same arrays: the   *)
(* first file has Coverage and Resistivity(log10), a later file may lack   *)
(* either and may hold a Sensitivity array before them.                    *)
(***************************************************************************)
ArrayFirsts == Firsts(OneRange, {EveryArray})

ArrayLists == {EveryArray, <<Resistivity>>, <<"Sensitivity", Resistivity>>, <<"Sensitivity">>}

ArrayMeshes == {[m EXCEPT !.point_data = a] : m \in Meshes(OneRange, {}), a \in ArrayLists}

\* the first frame is the file the list of scalars was read from
Held(meshes) ==
    IF vtk_files # <<>> /\ frame_slider.value = Min(Keys(vtk_files))
    THEN {m \in meshes : m.point_data = active_scalars_combo.items}
    ELSE meshes

NextArrays ==
    \/ OpenDataLocation(SceneListings, ArrayFirsts, Meshes(OneRange, {}))
    \/ SelectScalars
    \/ MoveFrameSlider
    \/ ToggleShowIsosurfaces
    \/ ClickApply(Held(ArrayMeshes))

SpecArrays == InitScene /\ [][NextArrays]_vars

(***************************************************************************)
(* The control panel: its buttons and fields as the operator uses them, in *)
(* the application and in the window of test_control_panel.py, which holds *)
(* a ControlPanel without an application behind it.                        *)
(***************************************************************************)
PanelIdle == program \in {"qt", "panel"} /\ pc = "idle"

ClickPresetFull ==
    /\ PanelIdle
    /\ Assign(apply_opacity_preset_full(QtState))
    /\ UNCHANGED VideoVars

ClickPresetLinearUp ==
    /\ PanelIdle
    /\ Assign(apply_opacity_preset_linear_up(QtState))
    /\ UNCHANGED VideoVars

ClickPresetLinearDown ==
    /\ PanelIdle
    /\ Assign(apply_opacity_preset_linear_down(QtState))
    /\ UNCHANGED VideoVars

ClickPresetMaxMiddle ==
    /\ PanelIdle
    /\ Assign(apply_opacity_preset_max_middle(QtState))
    /\ UNCHANGED VideoVars

ClickPresetMaxSides ==
    /\ PanelIdle
    /\ Assign(apply_opacity_preset_max_sides(QtState))
    /\ UNCHANGED VideoVars

SelectColormap ==
    /\ PanelIdle
    /\ \E name \in Supported \ {control_panel.colormap_combo} :
         Assign(Edited([QtState EXCEPT !.colormap_combo = name]))
    /\ UNCHANGED VideoVars

\* the frame slider of the test window keeps its range 0..100
PanelStops == {0, 1, SliderMaximum}

MovePanelSlider ==
    /\ program = "panel"
    /\ \E v \in PanelStops \ {frame_slider.value} :
         Assign(Edited([QtState EXCEPT !.frame_slider.value = v]))
    /\ UNCHANGED VideoVars

\* the test window has no frame to show
NoMesh == [bounds |-> EmptyBox, auto_min |-> 0, auto_max |-> 0, point_data |-> <<>>]

ClickApplyPanel ==
    /\ program = "panel"
    /\ Assign(on_apply_clicked(QtState, NoMesh, NoGrid))
    /\ UNCHANGED VideoVars

NextPanel ==
    \/ ClickPresetFull
    \/ ClickPresetLinearUp
    \/ ClickPresetLinearDown
    \/ ClickPresetMaxMiddle
    \/ ClickPresetMaxSides
    \/ SelectColormap
    \/ MovePanelSlider
    \/ ClickApplyPanel

InitPanel ==
    /\ program = "panel"
    /\ InitFields
    /\ GridIdle
    /\ CleanIdle
    /\ BuildIdle

SpecPanel == InitPanel /\ [][NextPanel]_vars

(***************************************************************************)
(* The application with the controls of its range and colour groups: the   *)
(* operator opens a results folder, types a minimum, presses an opacity    *)
(* preset, moves to another frame, presses Auto-Detect Range or Apply, or  *)
(* exports the frames.                                                     *)
(***************************************************************************)
ControlMeshes == Meshes(OneRange \cup {<<0, 3000>>}, {EmptyBox})

ClickAutoRange(firsts, meshes) ==
    /\ QtIdle
    /\ \E mesh \in meshes :
         \E grid \in resample_to_uniform_grid(mesh.bounds, get_target_cells) :
         \E raw \in {f \in firsts : Sampled(f, mesh)} :
            Assign(auto_detect_scalar_range(QtState, raw, mesh, grid))
    /\ UNCHANGED VideoVars

NextControls ==
    \/ OpenDataLocation(SceneListings, ArrayFirsts, ControlMeshes)
    \/ EditDataMin
    \/ ClickPresetFull
    \/ MoveFrameSlider
    \/ ClickAutoRange(ArrayFirsts, ControlMeshes)
    \/ ClickApply(ControlMeshes)
    \/ VideoStart
    \/ VideoFrame(ControlMeshes)
    \/ VideoEnd

SpecControls == InitScene /\ [][NextControls]_vars

(***************************************************************************)
(* Properties.                                                             *)
(***************************************************************************)
\* the catalog of the program that runs
Catalog == IF program = "qt" THEN vtk_files ELSE dam_vis.vtk_files

Discovered == last.op \in {"load_data_location", "find_vtk_files"}

Ascending(seq) == \A i \in 1..(Len(seq) - 1) : seq[i] < seq[i + 1]

\* the comparison update_data_range made in the step that led here, if it made one
RangeCalls == {last.range[i] : i \in 1..Len(last.range)}

WithinTolerance(c) ==
    /\ Abs(c.manual_min - c.auto_min) <= tolerance
    /\ Abs(c.manual_max - c.auto_max) <= tolerance

\* the field shows v to its three decimals
Shows(field, v) == field % Milli = 0 /\ 2 * Abs(field - v) <= Milli

\* C1: whenever update_data_range finds both fields within 0.001 of the
\* auto-detected bounds, it takes the Auto branch: the effective range is exactly
\* the auto-detected one, and both fields are set to the auto values, which a
\* three-decimal field holds to its three decimals.
C1_AutoBranch ==
    \A c \in RangeCalls :
        WithinTolerance(c) =>
            /\ c.branch = "auto"
            /\ global_min = c.auto_min /\ global_max = c.auto_max
            /\ Shows(data_min_spinbox, c.auto_min)
            /\ Shows(data_max_spinbox, c.auto_max)

\* C1 happens: an update within tolerance of a typed minimum moved the field.
C1_Witness ==
    \E c \in RangeCalls :
        /\ WithinTolerance(c)
        /\ c.manual_min # c.auto_min
        /\ data_min_spinbox # c.manual_min
        /\ global_min = c.auto_min

FrameUpdates == {"on_apply_clicked", "video_frame"}

\* C2: once an update took the Manual branch, a following frame update with no
\* edit and no change of scalars in between keeps the effective range at those
\* manual values and takes the Manual branch again, whatever the frame's
\* auto-detected range.
C2_ManualPersistence ==
    [][(/\ last.range # <<>> /\ last.range[1].branch = "manual"
        /\ last'.op \in FrameUpdates /\ last'.range # <<>>
        /\ active_scalars' = active_scalars)
       => (/\ last'.range[1].branch = "manual"
           /\ global_min' = global_min
           /\ global_max' = global_max)]_vars

\* C3: the first update after the active scalars changed takes the Auto branch
\* and its effective range is the auto-detected range of the new scalars.
C3_ResetOnSelectionChange ==
    [][(/\ last'.op = "on_apply_clicked"
        /\ active_scalars' # active_scalars
        /\ last'.range # <<>>)
       => (/\ last'.range[1].branch = "auto"
           /\ global_min' = last'.range[1].auto_min
           /\ global_max' = last'.range[1].auto_max)]_vars

ExportFrames == {"video_frame", "create_video_frame"}

\* C4: within one export, every frame is drawn with the value range of the
\* frame drawn before it.
C4_ConsistentScale ==
    [][(/\ last.op \in ExportFrames /\ last.clim # <<>>
        /\ last'.op \in ExportFrames /\ last'.clim # <<>>)
       => last'.clim = last.clim]_vars

\* C5: a discovery that completes leaves the catalog in ascending order of the
\* frame index whatever the order of the listing, and an export visits the
\* frames in ascending order.
C5_CatalogOrdering ==
    /\ (Discovered /\ ~last.raised) => Ascending(KeyList(Catalog))
    /\ Ascending(video_keys)

\* C5 happens: a listing in lexical order, 10 before 2, catalogued as 2, 10.
C5_Witness ==
    /\ Discovered
    /\ last.listing = <<dcinv_10, dcinv_2>>
    /\ KeyList(Catalog) = <<2, 10>>
    /\ DictGet(Catalog, 10) = dcinv_10

Matching(listing) == {i \in 1..Len(listing) : Matches(listing[i])}

\* C6: every discovery completes without failing and leaves an ordered catalog
\* with exactly one entry for each listed file that starts with dcinv and ends
\* with .vtk, keyed by the integer between its last underscore and the extension.
C6_CatalogMatching ==
    Discovered =>
        /\ ~last.raised
        /\ Ascending(KeyList(Catalog))
        /\ Len(Catalog) = Cardinality(Matching(last.listing))
        /\ \A i \in Matching(last.listing) :
              /\ ~IntRaises(Token(last.listing[i]))
              /\ \E j \in 1..Len(Catalog) :
                    /\ Catalog[j].key = int(Token(last.listing[i]))
                    /\ Catalog[j].file = last.listing[i]
        /\ \A j \in 1..Len(Catalog) :
              \E i \in Matching(last.listing) : Catalog[j].file = last.listing[i]

\* a discovery over a listing without a file of the pattern dcinv*.vtk
EmptyDiscovery ==
    /\ Discovered
    /\ \A i \in 1..Len(last.listing) :
          ~(startswith(last.listing[i], Prefix) /\ endswith(last.listing[i], Extension))

EmptyDiscoveryHandled ==
    EmptyDiscovery =>
        /\ ~last.raised
        /\ Catalog = <<>>
        /\ pc = "idle"
        /\ program = "qt" => (last.message = "warning" /\ last.update = "none")

PositiveInput ==
    /\ grid_out.done
    /\ \A i \in 1..3 : Extents(grid_in.bounds)[i] > 0
    /\ grid_in.target_cells >= 1

\* C9: for strictly positive extents and targetCells >= 1 the resampler raises
\* nothing and every dimension is at least 2.
C9_GridDimensions ==
    PositiveInput =>
        /\ ~grid_out.raised
        /\ \A i \in 1..3 : grid_out.dims[i] >= 2

\* C9 happens: a box resampled to the smallest grid.
C9_Witness ==
    /\ PositiveInput
    /\ Extents(grid_in.bounds) = <<2, 3, 1>>
    /\ grid_out.dims[3] = 2

CellCount == grid_out.dims[1] * grid_out.dims[2] * grid_out.dims[3]

RoundingFactor == 3 * 3 * 3    \* each of three dimensions at most 3 times extent / cellSize

\* no extent is shorter than cellSize: e^3 * targetCells >= volume
NoThinAxis ==
    \A i \in 1..3 :
        LET e == Extents(grid_in.bounds)[i]
        IN e * e * e * grid_in.target_cells >= Volume(Extents(grid_in.bounds))

\* C10 as the specification states it: the cell count is between targetCells and
\* a fixed multiple of targetCells, whatever the extents.
C10_CellBudget ==
    PositiveInput =>
        /\ CellCount >= grid_in.target_cells
        /\ CellCount <= RoundingFactor * grid_in.target_cells

\* C10 amended: the cell count exceeds targetCells, and it is at most 27 times
\* targetCells when no extent is shorter than cellSize.
C10_CellBudgetAmended ==
    PositiveInput =>
        /\ ~grid_out.raised
        /\ CellCount > grid_in.target_cells
        /\ NoThinAxis => CellCount <= RoundingFactor * grid_in.target_cells

\* C10 happens: a cube with a budget of one cell, the ceiling rounded up.
C10_Witness ==
    /\ PositiveInput
    /\ NoThinAxis
    /\ CellCount = RoundingFactor * grid_in.target_cells

CleanedIndices == 1..Len(clean_out.data)

\* C11: whatever NaN, +Inf and -Inf entries the resampled field holds, the
\* field the cleanup returns holds no NaN and no infinite entry.
C11_CleanFinite ==
    clean_out.done =>
        \A i \in CleanedIndices : clean_out.data[i].k = "fin"

\* the source bounds less and plus the buffer, times ten
LowTimesTen == 10 * clean_in.valid_min - (clean_in.valid_max - clean_in.valid_min)

HighTimesTen == 10 * clean_in.valid_max + (clean_in.valid_max - clean_in.valid_min)

\* C12: with a, b the source minimum and maximum and buffer = 0.1 * (b - a),
\* every sample that after the NaN/Inf replacement is below a - buffer or above
\* b + buffer is replaced by a - 1.0, and every sample from a - buffer to
\* b + buffer is left as it is.
C12_CleanThreshold ==
    clean_out.done =>
        \A i \in CleanedIndices :
            LET v == clean_out.filled[i]
                out == clean_out.data[i]
            IN /\ v.k \in {"pinf", "ninf"} => out = [k |-> "fin", v |-> clean_in.valid_min - 5000]
               /\ (v.k = "fin" /\ (10 * v.v < LowTimesTen \/ 10 * v.v > HighTimesTen))
                     => out = [k |-> "fin", v |-> clean_in.valid_min - 5000]
               /\ (v.k = "fin" /\ 10 * v.v >= LowTimesTen /\ 10 * v.v <= HighTimesTen)
                     => out = v

\* C12 happens: samples on the edge of the buffer kept, samples just outside replaced.
C12_Witness ==
    /\ clean_out.done
    /\ clean_in.valid_min = 0 /\ clean_in.valid_max = 100
    /\ clean_in.data = <<Fin(-11), Fin(-10), Fin(111)>>
    /\ clean_out.data = <<Fin(-5000), Fin(-10), Fin(-5000)>>

\* the steps a frame makes after its field was resampled and cleaned
AfterCleanup == {"range", "transfer", "isosurfaces"}

\* C13: in every visualization update and in every frame of a batch export,
\* the range tracker, the transfer functions and the isosurfaces come after the
\* artifact cleanup, which comes after the resampling
\* (resample -> clean -> range -> transfer functions / isosurfaces).
C13_PipelineOrder ==
    \A i \in 1..Len(last.stages) :
        last.stages[i] \in AfterCleanup =>
            \E j \in 1..i, k \in 1..i :
                /\ j < k /\ k < i
                /\ last.stages[j] = "resample"
                /\ last.stages[k] = "clean"

(***************************************************************************)
(* Properties of the isosurfaces and transfer functions built on their own.*)
(***************************************************************************)
Built(op) == build_out.done /\ build_in.op = op

RatLess(x, y) == x.num * y.den < y.num * x.den

RatEqual(x, y) == x.num * y.den = y.num * x.den

RatMinus(x, y) == Rat(x.num * y.den - y.num * x.den, x.den * y.den)

\* Multiple mode over a proper range
MultipleMode ==
    /\ ~build_in.iso_single_mode
    /\ build_in.global_max > build_in.global_min
    /\ build_in.iso_num_surfaces >= 2

\* C14: in Multiple mode, for a range with max > min and a count >= 2, exactly
\* count isovalues are selected, value_k = min + k * (max - min) / (count + 1)
\* for k = 1..count; they are strictly increasing, evenly spaced, and each lies
\* strictly between min and max.
C14_MultipleIsovalues ==
    (Built("isosurfaces") /\ MultipleMode) =>
        LET value == build_out.selected
            count == build_in.iso_num_surfaces
            min == build_in.global_min
            max == build_in.global_max
        IN /\ Len(value) = count
           /\ \A k \in 1..count :
                 /\ RatEqual(value[k], Rat(min * (count + 1) + k * (max - min), count + 1))
                 /\ RatLess(Rat(min, 1), value[k])
                 /\ RatLess(value[k], Rat(max, 1))
           /\ \A k \in 1..(count - 1) :
                 /\ RatLess(value[k], value[k + 1])
                 /\ RatEqual(RatMinus(value[k + 1], value[k]), RatMinus(value[2], value[1]))

\* three surfaces over -0.189..4.970: 1.10075, 2.3905 and 3.68025
C14_Witness ==
    /\ Built("isosurfaces") /\ MultipleMode
    /\ build_in.global_min = ScriptGlobalMin /\ build_in.global_max = ScriptGlobalMax
    /\ build_out.selected = <<Rat(22015, 4), Rat(47810, 4), Rat(73605, 4)>>

ActorOpacities == {build_out.actors[i].opacity : i \in 1..Len(build_out.actors)}

\* C16 as the specification states it: every generated isosurface has the
\* opacity spec.opacity when one surface is generated and 0.7 * spec.opacity
\* when more than one is generated.
C16_PerSurfaceOpacity ==
    Built("isosurfaces") =>
        \A opacity \in ActorOpacities :
            opacity = IF Len(build_out.actors) > 1
                      THEN 7 * build_in.iso_opacity
                      ELSE 10 * build_in.iso_opacity

\* C16: every generated isosurface has the same opacity: spec.opacity, or
\* 0.7 * spec.opacity when Multiple mode selected more than one isovalue
\* (however many of them gave a surface), and 1.0 in place of either when
\* that is 0.9 or more.
C16_PerSurfaceOpacityAmended ==
    Built("isosurfaces") =>
        LET base == IF ~build_in.iso_single_mode /\ Len(build_out.selected) > 1
                    THEN 7 * build_in.iso_opacity
                    ELSE 10 * build_in.iso_opacity
        IN \A opacity \in ActorOpacities :
              opacity = IF base >= 900 THEN 1000 ELSE base

\* two isovalues selected over 0..1, the frame has a surface at the lower one only,
\* drawn at 0.7 * 0.89
C16_Witness ==
    /\ Built("isosurfaces")
    /\ ~build_in.iso_single_mode
    /\ Len(build_out.selected) = 2
    /\ Len(build_out.actors) = 1
    /\ build_in.iso_opacity = 89
    /\ ActorOpacities = {623}

\* the colour control points of the default palette over the range drawn
DefaultColorPoints == ColorPoints(RdYlBu_r, build_in)

ExpectedOpacityPoints ==
    LET N == Len(build_in.opacity)
        min == build_in.global_min
        max == build_in.global_max
    IN [i \in 0..(N - 1) |-> [value |-> Rat(min * (N - 1) + i * (max - min), N - 1),
                              opacity |-> 10 * build_in.opacity[i + 1]]]

\* C20: for a range with max > min and N opacity channels, exactly N control
\* points are produced, value_i = min + (i / (N - 1)) * (max - min) and
\* opacity_i = channels[i] for i = 0..N-1, the first at min, the last at max, the
\* values strictly increasing; for max = min no control point is produced.
C20_OpacityTransfer ==
    Built("transfer") =>
        LET N == Len(build_in.opacity)
            point == build_out.opacity
        IN /\ build_in.global_max > build_in.global_min =>
                /\ Len(point) = N
                /\ \A i \in 0..(N - 1) :
                      /\ RatEqual(point[i + 1].value, ExpectedOpacityPoints[i].value)
                      /\ point[i + 1].opacity = ExpectedOpacityPoints[i].opacity
                /\ RatEqual(point[1].value, Rat(build_in.global_min, 1))
                /\ RatEqual(point[N].value, Rat(build_in.global_max, 1))
                /\ \A i \in 1..(N - 1) : RatLess(point[i].value, point[i + 1].value)
           /\ build_in.global_max = build_in.global_min => point = <<>>

\* the 18 default channels over -0.189..4.970: the ninth point is fully opaque
C20_Witness ==
    /\ Built("transfer")
    /\ build_in.global_min = ScriptGlobalMin /\ build_in.global_max = ScriptGlobalMax
    /\ build_in.opacity = OpacityDefault
    /\ Len(build_out.opacity) = Channels
    /\ build_out.opacity[9] = [value |-> Rat(ScriptGlobalMin * 17 + 8 * 25795, 17),
                               opacity |-> 1000]

(***************************************************************************)
(* Properties of the scene an update leaves.                               *)
(***************************************************************************)
\* the step that led here was a visualization update that got past its guard
Updated == last.update = "done"

\* no volume actor was created or added by the update
VolumeSuppressed ==
    /\ current_volume_actor = None
    /\ \A i \in 1..Len(last.stages) : last.stages[i] = "isosurfaces"
    /\ last.color = <<>> /\ last.opacity = <<>>

\* C17 as the specification states it: in every update in which isosurfaces
\* are shown and spec.opacity >= 0.9 the volumetric rendering is suppressed
\* entirely, whatever the other session parameters are.
C17_AutoHide ==
    (Updated /\ app.show_isosurfaces /\ app.iso_opacity >= 90) => VolumeSuppressed

\* C17: in every update in which the auto-hide option is enabled, isosurfaces
\* are shown and spec.opacity >= 0.9, the volumetric rendering is suppressed
\* entirely: no volume actor is created or added to the scene.
C17_AutoHideAmended ==
    (Updated /\ app.auto_hide_volume /\ app.show_isosurfaces /\ app.iso_opacity >= 90)
        => VolumeSuppressed

\* the volume is asked for, and hidden behind a surface of opacity 0.9
C17_Witness ==
    /\ Updated
    /\ show_volume /\ app.auto_hide_volume /\ app.show_isosurfaces
    /\ app.iso_opacity = 90
    /\ app.current_iso_actors # <<>>
    /\ VolumeSuppressed

\* every control point of the volume's scalar opacity is its channel times
\* weight / 10
ChannelsTimes(weight) ==
    /\ Len(last.opacity) = Len(app.opacity)
    /\ \A i \in 1..Len(last.opacity) : last.opacity[i].opacity = weight * app.opacity[i]

\* C18: in every update that shows both the volume and isosurfaces with
\* spec.opacity >= 0.8, every opacity control point of the volume is 0.7 times
\* its channel; with spec.opacity < 0.8, or without isosurfaces shown, every
\* control point is its channel unscaled.
C18_BleedThrough ==
    (Updated /\ current_volume_actor = "volume" /\ global_max > global_min) =>
        /\ (app.current_iso_actors # <<>> /\ app.iso_opacity >= 80) => ChannelsTimes(7)
        /\ (app.current_iso_actors = <<>> \/ app.iso_opacity < 80) => ChannelsTimes(10)

\* volume and one surface of opacity 0.8: the fully opaque channel is drawn at 0.7
C18_Witness ==
    /\ Updated /\ current_volume_actor = "volume"
    /\ Len(app.current_iso_actors) = 1
    /\ app.iso_opacity = 80
    /\ app.opacity[9] = 100
    /\ last.opacity[9].opacity = 700

\* C21: after the LinearUp preset, channel i of the N channels (i = 0..N-1) reads
\* back from get_opacity_values as exactly i/(N-1): the percentage p read for
\* channel i satisfies p * (N-1) = 100 * i.
C21_LinearUp ==
    last.op = "apply_opacity_preset_linear_up" =>
        LET channels == get_opacity_values(QtState)
            N == Len(channels)
        IN \A i \in 0..(N - 1) : channels[i + 1] * (N - 1) = 100 * i

\* the arrays update_visualization made active in the step that led here when the
\* mesh had point arrays but not the one asked for
Substitutions ==
    {e \in {last.scalars[i] : i \in 1..Len(last.scalars)} :
        /\ e.of # <<>>
        /\ active_scalars \notin {e.of[i] : i \in 1..Len(e.of)}}

\* the update went on to its end with the frame in the scene
Rendered ==
    /\ last.update = "done"
    /\ last.message = None
    /\ current_volume_actor = "volume"
    /\ last.stages[Len(last.stages)] \in {"transfer", "isosurfaces"}

\* C22: when the scalar asked for is absent on the mesh of the frame, the first
\* point array of that mesh is made active in its place, and the update goes on
\* to render the frame without raising an error.
C22_MissingScalar ==
    \A e \in Substitutions : e.name = e.of[1] /\ Rendered

\* C22 as amended: when the scalar asked for is absent, Resistivity(log10) is made
\* active if the mesh has it, otherwise the first point array of the mesh, and
\* the update goes on to render the frame without raising an error.
C22_MissingScalarAmended ==
    \A e \in Substitutions :
        /\ e.name = (IF Resistivity \in {e.of[i] : i \in 1..Len(e.of)}
                     THEN Resistivity ELSE e.of[1])
        /\ Rendered

\* C22 happens: Coverage was asked for on a frame that holds Sensitivity and
\* Resistivity(log10), for the volume and for the isosurface.
C22_Witness ==
    /\ active_scalars = "Coverage"
    /\ \E e \in Substitutions :
          e.by = "isosurfaces" /\ e.of = <<"Sensitivity", Resistivity>> /\ e.name = Resistivity
    /\ \E e \in Substitutions : e.by = "volume" /\ e.name = Resistivity
    /\ last.frame = <<10>>
    /\ Rendered

\* the step that led here ran the pipeline for a frame, and the pipeline failed:
\* the resampler raised, or the update ended in its except branch
FrameFailed ==
    /\ last.frame # <<>>
    /\ \/ last.raised
       \/ last.resample = "raised"
       \/ last.message = "critical"

\* C23: a frame whose pipeline fails does not end the program, and when the frame
\* is one of an export the export is still running after it, so that the entries
\* after it are processed too.
C23_FailureIsolation ==
    FrameFailed =>
        /\ pc # "raised"
        /\ last.op \in ExportFrames => pc = "video"

ExportEnds == {"video_end", "create_video_end"}

\* C24: an export visits the catalog in ascending order of the index, one entry
\* at a time: after the step for an entry, that entry is the next one of the
\* ascending order, it has been updated and captured, and the frames captured
\* so far are as many as the entries visited, so that the frame of the entry got
\* the next number counted from 0; when the export ends there is one frame for
\* every entry of the catalog.
C24_ExportSequence ==
    (pc = "video" \/ last.op \in ExportFrames \cup ExportEnds) =>
        LET keys == sorted(Keys(Catalog))
            visited == Len(keys) - Len(video_keys)
        IN /\ visited >= 0
           /\ video_keys = SubSeq(keys, visited + 1, Len(keys))
           /\ image_number = visited
           /\ last.op \in ExportFrames => last.frame = <<keys[visited]>>
           /\ last.op \in ExportEnds => image_number = Len(keys)

(***************************************************************************)
(* Nothing is carried from one update to the next.                         *)
(***************************************************************************)
\* C25: after an update, the colour function handed to the renderer for the scalar
\* bar is the one that update has built for its volume: none is kept from an
\* earlier update and shown again
C25_NoCaching ==
    (program = "qt" /\ last.update = "done" /\ last.scalar_bar # <<>>)
        => last.scalar_bar = last.color

(***************************************************************************)
(* Apply and the dirty flag of the control panel.                          *)
(***************************************************************************)
\* what a handler step records when the operator has changed a control
PanelEdits ==
    {"on_parameter_changed", "apply_opacity_preset_full", "apply_opacity_preset_linear_up",
     "apply_opacity_preset_linear_down", "apply_opacity_preset_max_middle",
     "apply_opacity_preset_max_sides"}

\* C26: every edit of a control leaves the dirty flag set; on Apply the slot
\* connected to apply_changes reads the flag as it was before the click, and the
\* flag is clear once the click has been handled
C26_ApplyDirty ==
    [][/\ last'.op \in PanelEdits => is_dirty'
       /\ last'.op = "on_apply_clicked" => (last'.dirty = <<is_dirty>> /\ ~is_dirty')]_vars

\* Apply clicked with an edit pending: the slot has read the flag set, and it is clear
C26_Witness ==
    program = "panel" /\ last.op = "on_apply_clicked" /\ last.dirty = <<TRUE>> /\ ~is_dirty

(***************************************************************************)
(* The range from one frame to the next.                                   *)
(***************************************************************************)
\* C27: when an update has taken the Auto branch and the next step is the update
\* of another frame, with the same scalars and the range fields as that update
\* left them, this update takes the Auto branch too and its effective range is
\* the auto-detected range of its own frame
C27_AutoStable ==
    [][(/\ last.range # <<>> /\ last.range[1].branch = "auto"
        /\ last'.op \in FrameUpdates /\ last'.range # <<>>
        /\ active_scalars' = active_scalars
        /\ last'.frame # last.frame)
       => (/\ last'.range[1].branch = "auto"
           /\ global_min' = last'.range[1].auto_min
           /\ global_max' = last'.range[1].auto_max)]_vars

(***************************************************************************)
(* The dirty flag and what is applied.                                     *)
(***************************************************************************)
\* C28: when the step that led here has run apply_parameter_changes to its end,
\* so that nothing has been edited since, the dirty flag is clear
C28_DirtyPending ==
    (program = "qt" /\ last.applied) => ~is_dirty

\* what an update leaves behind: the effective range, the actors in the scene and
\* the transfer functions and colour bar handed to the renderer
Output(s) ==
    [global_min |-> s.global_min, global_max |-> s.global_max,
     current_volume_actor |-> s.current_volume_actor,
     current_iso_actors |-> s.current_iso_actors,
     clim |-> s.trace.clim, color |-> s.trace.color, opacity |-> s.trace.opacity,
     scalar_bar |-> s.trace.scalar_bar]

\* the panel after one more edit that is not applied: a typed range bound
RangeStaged(s) ==
    {Edited([s EXCEPT !.data_min_spinbox = v]) : v \in EditMins}
    \cup {Edited([s EXCEPT !.data_max_spinbox = v]) : v \in EditMaxs}

\* the panel after one more edit that is not applied: another palette, a preset,
\* another isovalue or opacity of the isosurfaces, another frame
OtherStaged(s) ==
    {Edited([s EXCEPT !.colormap_combo = name]) : name \in Supported}
    \cup {apply_opacity_preset_full(s), apply_opacity_preset_linear_up(s)}
    \cup {Edited([s EXCEPT !.iso_value_spinbox = s.data_min_spinbox]),
          Edited([s EXCEPT !.show_isosurfaces_checkbox = ~@]),
          Edited([s EXCEPT !.show_volume_checkbox = ~@])}
    \cup {Edited([s EXCEPT !.iso_opacity_spinbox = v]) : v \in SceneOpacities}
    \cup {Edited([s EXCEPT !.frame_slider.value = v]) : v \in SliderStops}

\* the update of any frame, as an export makes it, comes out the same with and
\* without the edits
Unaffected(staged) ==
    \A mesh \in ControlMeshes :
        \A grid \in resample_to_uniform_grid(mesh.bounds, target_cells) :
            \A frame_index \in Keys(vtk_files), e \in staged :
                Output(update_visualization(e, frame_index, mesh, grid))
                    = Output(update_visualization(QtState, frame_index, mesh, grid))

\* C29: an edit in the control panel that is not applied changes nothing in what
\* an update comes out with: an export that starts now draws every frame as it
\* would without the edit
C29_Staged ==
    (QtIdle /\ vtk_files # <<>>) =>
        Unaffected(RangeStaged(QtState) \cup OtherStaged(QtState))

\* the same for every edit but those of the two range fields
OtherEditsStaged ==
    (QtIdle /\ vtk_files # <<>>) => Unaffected(OtherStaged(QtState))

(***************************************************************************)
(* The palette of the isosurfaces.                                         *)
(***************************************************************************)
\* C30: for each palette the control panel offers and every range, the colour
\* control points of every isosurface built are those the volume gets for the
\* same palette and range
C30_SameColormap ==
    (Built("isosurfaces") /\ build_in.colormap \in Supported) =>
        \A i \in 1..Len(build_out.actors) :
            build_out.actors[i].color = volume_color_func(build_in)

====
